---- MODULE Spec2Model ----
(***************************************************************************)
(* A model of tft-comp-decider: the component/crafting solver              *)
(* (core/solver.py), the scoring engine (core/scoring.py), the notes       *)
(* engine (core/notes.py), the stage helpers (core/types.py) and the name  *)
(* normalizer (core/models.py, data/catalog.py).                           *)
(*                                                                         *)
(* Every function invocation is a record variable whose fields are the     *)
(* function's arguments and locals (named as in the source) plus a pc.     *)
(* Python dicts are functions whose DOMAIN is the key set; lists are       *)
(* sequences; list indices recorded by the code stay 0-based.              *)
(***************************************************************************)
EXTENDS Integers, Sequences, FiniteSets, TLC

VARIABLES asg, crf, sc, nt, nm, mdl, stg, an, ld, ing, ui

vars == <<asg, crf, sc, nt, nm, mdl, stg, an, ld, ing, ui>>

\* Optional values: None is the empty tuple, a present value v is Some(v).
None == <<>>

Some(v) == <<v>>

ValueOf(o) == o[1]

Idle == [pc |-> "idle"]

\* ------------------------------------------------------------------------
\* Bounds
\* ------------------------------------------------------------------------
MaxLen == 3
MaxCount == 2

\* ------------------------------------------------------------------------
\* Generic helpers
\* ------------------------------------------------------------------------
Get(d, k, default) == IF k \in DOMAIN d THEN d[k] ELSE default

SeqsUpTo(S, n) == UNION {[1..k -> S] : k \in 0..n}

Dicts(K, V) == UNION {[S -> V] : S \in SUBSET K}

Range(s) == {s[i] : i \in DOMAIN s}

RECURSIVE SumSeq(_)
SumSeq(s) == IF s = <<>> THEN 0 ELSE s[1] + SumSeq(Tail(s))

CountIn(s, x) == Cardinality({i \in DOMAIN s : s[i] = x})

\* ------------------------------------------------------------------------
\* core/solver.py: assign_components_by_priority
\* ------------------------------------------------------------------------
Components == {"Recurve Bow", "Needlessly Large Rod", "Negatron Cloak"}

\* core/solver.py: mutations of the assignment used by the checks below
\* zeroed entries are kept in remaining
AssignmentResultKeepZeros(st) ==
    [matched |-> Len(st.matches),
     total |-> Len(st.priority),
     matches |-> st.matches,
     missing |-> st.missing,
     remaining |-> st.stock]

\* the stock records which components are owned, one unit each
PositiveStockAsSet(have) == [k \in {c \in DOMAIN have : have[c] > 0} |-> 1]

PositiveStock(have) == [k \in {c \in DOMAIN have : have[c] > 0} |-> have[k]]

AssignStart(priority, have) ==
    [pc |-> "loop", priority |-> priority, have |-> have,
     stock |-> PositiveStock(have), idx |-> 0,
     matches |-> <<>>, missing |-> <<>>]

AssignStepNoConsume(st) ==
    LET need == st.priority[st.idx + 1] IN
    IF Get(st.stock, need, 0) > 0
    THEN [st EXCEPT !.matches = Append(@, <<st.idx, need>>), !.idx = @ + 1]
    ELSE [st EXCEPT !.missing = Append(@, need), !.idx = @ + 1]

\* the stock is the passed mapping itself, not a copy of it
AssignStepOnHave(st) ==
    LET need == st.priority[st.idx + 1] IN
    IF Get(st.stock, need, 0) > 0
    THEN [st EXCEPT !.stock[need] = @ - 1,
                    !.have[need] = @ - 1,
                    !.matches = Append(@, <<st.idx, need>>),
                    !.idx = @ + 1]
    ELSE [st EXCEPT !.missing = Append(@, need), !.idx = @ + 1]

AssignStep(st) ==
    LET need == st.priority[st.idx + 1] IN
    IF Get(st.stock, need, 0) > 0
    THEN [st EXCEPT !.stock[need] = @ - 1,
                    !.matches = Append(@, <<st.idx, need>>),
                    !.idx = @ + 1]
    ELSE [st EXCEPT !.missing = Append(@, need), !.idx = @ + 1]

AssignmentResult(st) ==
    [matched |-> Len(st.matches),
     total |-> Len(st.priority),
     matches |-> st.matches,
     missing |-> st.missing,
     remaining |-> [k \in {c \in DOMAIN st.stock : st.stock[c] > 0} |-> st.stock[k]]]

RECURSIVE AssignRun(_)
AssignRun(st) ==
    IF st.idx < Len(st.priority) THEN AssignRun(AssignStep(st)) ELSE st

assign_components_by_priority(priority, have) ==
    AssignmentResult(AssignRun(AssignStart(priority, have)))

\* The call as a step machine: one loop iteration per step, then the return.
Priorities == SeqsUpTo(Components, MaxLen)
Haves == Dicts(Components, -1..MaxCount)

AssignLoop ==
    /\ asg.pc = "loop"
    /\ asg.idx < Len(asg.priority)
    /\ asg' = AssignStep(asg)
    /\ UNCHANGED <<crf, sc, nt, nm, mdl, stg, an, ld, ing, ui>>

AssignReturn ==
    /\ asg.pc = "loop"
    /\ asg.idx >= Len(asg.priority)
    /\ asg' = [asg EXCEPT !.pc = "done"] @@ [result |-> AssignmentResult(asg)]
    /\ UNCHANGED <<crf, sc, nt, nm, mdl, stg, an, ld, ing, ui>>

InitAssign ==
    /\ \E priority \in Priorities, have \in Haves : asg = AssignStart(priority, have)
    /\ crf = Idle /\ sc = Idle /\ nt = Idle /\ nm = Idle
    /\ mdl = Idle /\ stg = Idle /\ an = Idle /\ ld = Idle /\ ing = Idle
    /\ ui = Idle

NextAssign == AssignLoop \/ AssignReturn

SpecAssign == InitAssign /\ [][NextAssign]_vars

\* ------------------------------------------------------------------------
\* core/solver.py: craftable_bis_items
\* ------------------------------------------------------------------------
Carries == <<"Jhin", "Sivir">>
BisItems == {"Guinsoo's Rageblade", "Rabadon's Deathcap"}

\* Counter(recipe): component -> number of occurrences in the recipe.
Counter(recipe) == [c \in Range(recipe) |-> CountIn(recipe, c)]

Feasible(stock, need) == \A comp \in DOMAIN need : Get(stock, comp, 0) >= need[comp]

\* stock[comp] -= qty for every needed component; keys that reach <= 0 are deleted.
Consume(stock, need) ==
    LET after == [k \in DOMAIN stock |-> stock[k] - Get(need, k, 0)]
    IN [k \in {c \in DOMAIN after : after[c] > 0} |-> after[k]]

CraftStart(bis_by_carry, recipes, components, per_carry_limit) ==
    [pc |-> "carry", bis_by_carry |-> bis_by_carry, recipes |-> recipes,
     components |-> components, per_carry_limit |-> per_carry_limit,
     stock |-> PositiveStock(components), crafted |-> <<>>,
     crafted_map |-> <<>>, ci |-> 1, ii |-> 1]

\* for carry, desired in bis_by_carry.items(): crafted_map.setdefault(carry, [])
CraftCarryStep(st) ==
    LET carry == st.bis_by_carry[st.ci].carry IN
    [st EXCEPT !.pc = "item", !.ii = 1,
               !.crafted_map = IF carry \in DOMAIN @ THEN @ ELSE (carry :> <<>>) @@ @]

\* One iteration of "for item in desired".
CraftItemStepPartial(st) ==
    LET carry == st.bis_by_carry[st.ci].carry
        item == st.bis_by_carry[st.ci].desired[st.ii]
        recipe == Get(st.recipes, item, <<>>)
        skip == [st EXCEPT !.ii = @ + 1]
    IN IF recipe = <<>> THEN skip
       ELSE IF ~Feasible(st.stock, Counter(recipe))
            THEN [skip EXCEPT !.stock = [k \in DOMAIN @ |->
                                           IF k \in Range(recipe) THEN 0 ELSE @[k]]]
       ELSE LET made == [st EXCEPT !.stock = Consume(@, Counter(recipe)),
                                   !.crafted = Append(@, item),
                                   !.crafted_map[carry] = Append(@, item)]
            IN IF st.per_carry_limit # None
                  /\ Len(made.crafted_map[carry]) >= ValueOf(st.per_carry_limit)
               THEN [made EXCEPT !.pc = "carry", !.ci = @ + 1]
               ELSE [made EXCEPT !.ii = @ + 1]

CraftItemStep(st) ==
    LET carry == st.bis_by_carry[st.ci].carry
        item == st.bis_by_carry[st.ci].desired[st.ii]
        recipe == Get(st.recipes, item, <<>>)
        skip == [st EXCEPT !.ii = @ + 1]
    IN IF recipe = <<>> THEN skip
       ELSE IF ~Feasible(st.stock, Counter(recipe)) THEN skip
       ELSE LET made == [st EXCEPT !.stock = Consume(@, Counter(recipe)),
                                   !.crafted = Append(@, item),
                                   !.crafted_map[carry] = Append(@, item)]
            IN IF st.per_carry_limit # None
                  /\ Len(made.crafted_map[carry]) >= ValueOf(st.per_carry_limit)
               THEN [made EXCEPT !.pc = "carry", !.ci = @ + 1]
               ELSE [made EXCEPT !.ii = @ + 1]

\* The inner loop ran out of items: back to the outer loop.
CraftCarryDoneStep(st) == [st EXCEPT !.pc = "carry", !.ci = @ + 1]

CraftResult(st) ==
    [crafted |-> st.crafted,
     crafted_per_carry |-> st.crafted_map,
     remaining_components |-> st.stock]

RECURSIVE CraftRun(_)
CraftRun(st) ==
    IF st.pc = "carry"
    THEN IF st.ci <= Len(st.bis_by_carry) THEN CraftRun(CraftCarryStep(st)) ELSE st
    ELSE IF st.ii <= Len(st.bis_by_carry[st.ci].desired)
         THEN CraftRun(CraftItemStep(st))
         ELSE CraftRun(CraftCarryDoneStep(st))

craftable_bis_items(bis_by_carry, recipes, components, per_carry_limit) ==
    CraftResult(CraftRun(CraftStart(bis_by_carry, recipes, components, per_carry_limit)))

\* Input families of the crafting runs.
MaxDesired == 2
MaxLimit == 2

Desireds == SeqsUpTo(BisItems, MaxDesired)

\* Ordered mappings carry -> desired items (keys are distinct, in mapping order).
BisMaps ==
    {<<>>}
    \cup {<<[carry |-> Carries[i], desired |-> d]>> : i \in 1..2, d \in Desireds}
    \cup {<<[carry |-> Carries[1], desired |-> d1], [carry |-> Carries[2], desired |-> d2]>> :
             d1 \in Desireds, d2 \in Desireds}

\* Recipe maps: an item is unknown (no key) or maps to one of these recipes
\* (the empty recipe, a two-component recipe, a recipe listing one component twice).
RecipeLists ==
    {<<>>,
     <<"Recurve Bow", "Needlessly Large Rod">>,
     <<"Needlessly Large Rod", "Needlessly Large Rod">>}

RecipeMaps == Dicts(BisItems, RecipeLists)

GuinsooOnly == [i \in {"Guinsoo's Rageblade"} |-> <<"Recurve Bow", "Needlessly Large Rod">>]

WantsGuinsoo == <<[carry |-> "Jhin", desired |-> <<"Guinsoo's Rageblade">>]>>

CraftComponents == {"Recurve Bow", "Needlessly Large Rod"}
CraftStocks == Dicts(CraftComponents, 0..MaxCount)
Limits == {None} \cup {Some(k) : k \in 0..MaxLimit}

CraftCarry ==
    /\ crf.pc = "carry"
    /\ crf.ci <= Len(crf.bis_by_carry)
    /\ crf' = CraftCarryStep(crf)
    /\ UNCHANGED <<asg, sc, nt, nm, mdl, stg, an, ld, ing, ui>>

CraftItem ==
    /\ crf.pc = "item"
    /\ crf.ii <= Len(crf.bis_by_carry[crf.ci].desired)
    /\ crf' = CraftItemStep(crf)
    /\ UNCHANGED <<asg, sc, nt, nm, mdl, stg, an, ld, ing, ui>>

CraftCarryDone ==
    /\ crf.pc = "item"
    /\ crf.ii > Len(crf.bis_by_carry[crf.ci].desired)
    /\ crf' = CraftCarryDoneStep(crf)
    /\ UNCHANGED <<asg, sc, nt, nm, mdl, stg, an, ld, ing, ui>>

CraftReturn ==
    /\ crf.pc = "carry"
    /\ crf.ci > Len(crf.bis_by_carry)
    /\ crf' = [crf EXCEPT !.pc = "done"] @@ [result |-> CraftResult(crf)]
    /\ UNCHANGED <<asg, sc, nt, nm, mdl, stg, an, ld, ing, ui>>

InitCraft ==
    /\ \E b \in BisMaps, r \in RecipeMaps, c \in CraftStocks, k \in Limits :
          crf = CraftStart(b, r, c, k)
    /\ asg = Idle /\ sc = Idle /\ nt = Idle /\ nm = Idle
    /\ mdl = Idle /\ stg = Idle /\ an = Idle /\ ld = Idle /\ ing = Idle
    /\ ui = Idle

NextCraft == CraftCarry \/ CraftItem \/ CraftCarryDone \/ CraftReturn

SpecCraft == InitCraft /\ [][NextCraft]_vars

\* ------------------------------------------------------------------------
\* core/models.py, data/catalog.py: _normalize_name
\* Strings are sequences of characters.
\* ------------------------------------------------------------------------
MaxStr == 4

Whitespace == {" ", "\t"}
Alphabet == {"a", "*"} \cup Whitespace

RECURSIVE lstrip(_)
lstrip(s) == IF s # <<>> /\ s[1] \in Whitespace THEN lstrip(Tail(s)) ELSE s

RECURSIVE rstrip(_)
rstrip(s) ==
    IF s # <<>> /\ s[Len(s)] \in Whitespace THEN rstrip(SubSeq(s, 1, Len(s) - 1)) ELSE s

strip(s) == rstrip(lstrip(s))

endswith(s, ch) == s # <<>> /\ s[Len(s)] = ch

\* core/models.py
_normalize_name(value) ==
    LET v == strip(value) IN
    IF endswith(v, "*") THEN rstrip(SubSeq(v, 1, Len(v) - 1)) ELSE v

\* data/catalog.py (a textual copy of the same function)
catalog_normalize_name(value) ==
    LET v == strip(value) IN
    IF endswith(v, "*") THEN rstrip(SubSeq(v, 1, Len(v) - 1)) ELSE v

NormalizeIn(module, value) ==
    IF module = "models" THEN _normalize_name(value) ELSE catalog_normalize_name(value)

RawNames == SeqsUpTo(Alphabet, MaxStr)

\* A first call on a raw name, then a second call on the first call's result.
NormalizeOnce ==
    /\ nm.pc = "raw"
    /\ nm' = [nm EXCEPT !.pc = "once", !.once = NormalizeIn(nm.module, nm.value)]
    /\ UNCHANGED <<asg, crf, sc, nt, mdl, stg, an, ld, ing, ui>>

NormalizeTwice ==
    /\ nm.pc = "once"
    /\ nm' = [nm EXCEPT !.pc = "twice", !.twice = NormalizeIn(nm.module, nm.once)]
    /\ UNCHANGED <<asg, crf, sc, nt, mdl, stg, an, ld, ing, ui>>

InitNormalize ==
    /\ \E value \in RawNames, module \in {"models", "catalog"} :
          nm = [pc |-> "raw", module |-> module, value |-> value, once |-> <<>>, twice |-> <<>>]
    /\ asg = Idle /\ crf = Idle /\ sc = Idle /\ nt = Idle
    /\ mdl = Idle /\ stg = Idle /\ an = Idle /\ ld = Idle /\ ing = Idle
    /\ ui = Idle

NextNormalize == NormalizeOnce \/ NormalizeTwice

SpecNormalize == InitNormalize /\ [][NextNormalize]_vars

\* ------------------------------------------------------------------------
\* core/types.py: stage helpers. A stage string is a sequence of characters.
\* ------------------------------------------------------------------------
Str(t) == [i \in 1..Len(t) |-> t[i]]

DigitVal ==
    [c \in {"0", "1", "2", "3", "4", "5", "6", "7", "8", "9"} |->
        CASE c = "0" -> 0 [] c = "1" -> 1 [] c = "2" -> 2 [] c = "3" -> 3 [] c = "4" -> 4
          [] c = "5" -> 5 [] c = "6" -> 6 [] c = "7" -> 7 [] c = "8" -> 8 [] c = "9" -> 9]

\* int(text.strip()) of a run of decimal digits
RECURSIVE int(_)
int(text) ==
    LET t == strip(text) IN
    IF Len(t) = 1 THEN DigitVal[t[1]]
    ELSE 10 * int(SubSeq(t, 1, Len(t) - 1)) + DigitVal[t[Len(t)]]

\* stage.split("-", 1): the text before and after the first "-"
split_dash(stage) ==
    LET i == CHOOSE k \in 1..Len(stage) :
                 stage[k] = "-" /\ \A j \in 1..(k - 1) : stage[j] # "-"
    IN <<SubSeq(stage, 1, i - 1), SubSeq(stage, i + 1, Len(stage))>>

parse_stage(stage) ==
    LET parts == split_dash(stage) IN <<int(parts[1]), int(parts[2])>>

\* Python's ordering of 2-tuples of ints
TupleLe(a, b) == a[1] < b[1] \/ (a[1] = b[1] /\ a[2] <= b[2])

TupleGe(a, b) == TupleLe(b, a)

EARLY_CUTOFF == <<3, 1>>
MID_CUTOFF == <<4, 1>>

\* a bucket chosen by the round alone
stage_bucket_by_round(stage) ==
    LET rs == parse_stage(stage) IN
    IF rs[1] <= EARLY_CUTOFF[1] THEN "early"
    ELSE IF rs[1] <= MID_CUTOFF[1] THEN "mid"
    ELSE "late"

stage_bucket(stage) ==
    LET rs == parse_stage(stage) IN
    IF TupleLe(rs, EARLY_CUTOFF) THEN "early"
    ELSE IF TupleLe(rs, MID_CUTOFF) THEN "mid"
    ELSE "late"

stage_ge(a, b) == TupleGe(parse_stage(a), parse_stage(b))

\* ------------------------------------------------------------------------
\* core/notes.py: _evaluate_single, evaluate_notes
\* ------------------------------------------------------------------------
\* [x for x in xs if P(x)]
RECURSIVE SelectSeqBy(_, _)
SelectSeqBy(xs, keep) ==
    IF xs = <<>> THEN <<>>
    ELSE IF xs[1] \in keep THEN <<xs[1]>> \o SelectSeqBy(Tail(xs), keep)
    ELSE SelectSeqBy(Tail(xs), keep)

EvalMissing(t, inv) ==
    SelectSeqBy(t.missing_augments_any,
                {a \in Range(t.missing_augments_any) : a \notin Range(inv.augments)})

EvalHaveAny(t, inv) ==
    SelectSeqBy(t.have_components_any,
                {c \in Range(t.have_components_any) : Get(inv.items_components, c, 0) > 0})

HasStageMin(t) == t.stage_min # None /\ ValueOf(t.stage_min) # <<>>

_evaluate_single_any(note, inv) ==
    LET t == note.triggers
        active == (t.missing_augments_any # <<>>) \/ (t.have_components_any # <<>>) \/ HasStageMin(t)
        hit == \/ (t.missing_augments_any # <<>> /\ Len(EvalMissing(t, inv)) > 0)
               \/ (t.have_components_any # <<>> /\ Len(EvalHaveAny(t, inv)) > 0)
               \/ (HasStageMin(t) /\ stage_ge(inv.stage, ValueOf(t.stage_min)))
    IN [ok |-> (~active) \/ hit,
        details |-> [missing_augments_any |-> None, have_components_any |-> None,
                     stage_min |-> None]]

_evaluate_single(note, inv) ==
    LET t == note.triggers
        ok0 == TRUE
        missing == EvalMissing(t, inv)
        ok1 == IF t.missing_augments_any # <<>> THEN ok0 /\ Len(missing) > 0 ELSE ok0
        have_any == EvalHaveAny(t, inv)
        ok2 == IF t.have_components_any # <<>> THEN ok1 /\ Len(have_any) > 0 ELSE ok1
        stage_ok == stage_ge(inv.stage, ValueOf(t.stage_min))
        ok3 == IF HasStageMin(t) THEN ok2 /\ stage_ok ELSE ok2
    IN [ok |-> ok3,
        details |->
           [missing_augments_any |->
                IF t.missing_augments_any # <<>> THEN Some(missing) ELSE None,
            have_components_any |->
                IF t.have_components_any # <<>> THEN Some(have_any) ELSE None,
            stage_min |->
                IF HasStageMin(t)
                THEN Some([required |-> ValueOf(t.stage_min), have |-> inv.stage, ok |-> stage_ok])
                ELSE None]]

EvaluatedNote(n, details) ==
    [severity |-> n.severity, text |-> n.text,
     pivot_to |-> n.triggers.suggest_pivot_to, details |-> details]

NotesStart(build_notes, inv) ==
    [pc |-> "loop", notes |-> build_notes, inv |-> inv, idx |-> 1, results |-> <<>>]

NotesStepPrepend(st) ==
    LET n == st.notes[st.idx]
        r == _evaluate_single(n, st.inv)
    IN IF r.ok
       THEN [st EXCEPT !.results = <<EvaluatedNote(n, r.details)>> \o @, !.idx = @ + 1]
       ELSE [st EXCEPT !.idx = @ + 1]

\* One iteration of "for n in build.notes".
NotesStep(st) ==
    LET n == st.notes[st.idx]
        r == _evaluate_single(n, st.inv)
    IN IF r.ok
       THEN [st EXCEPT !.results = Append(@, EvaluatedNote(n, r.details)), !.idx = @ + 1]
       ELSE [st EXCEPT !.idx = @ + 1]

RECURSIVE NotesRun(_)
NotesRun(st) == IF st.idx <= Len(st.notes) THEN NotesRun(NotesStep(st)) ELSE st

evaluate_notes(build, inv) == NotesRun(NotesStart(build.notes, inv)).results

\* Input families of the notes engine.
MaxNotes == 3

Augments == {"Double Trouble II", "Double Trouble III"}

StageStrings == {Str(<<"3", "-", "1">>), Str(<<"3", "-", "2">>),
                 Str(<<"3", "-", "1", "0">>), Str(<<"4", "-", "1">>)}

TriggerSets ==
    [missing_augments_any : {<<>>, <<"Double Trouble II">>,
                             <<"Double Trouble II", "Double Trouble III">>},
     have_components_any : {<<>>, <<"Recurve Bow">>, <<"Recurve Bow", "Needlessly Large Rod">>},
     stage_min : {None, Some(Str(<<"3", "-", "2">>)), Some(Str(<<"3", "-", "1", "0">>))},
     suggest_pivot_to : {None, Some("sniper_squad")}]

Notes ==
    [severity : {"info", "warning", "critical"},
     text : {"Pivot if the augment is missing."},
     triggers : TriggerSets]

NoteInventories ==
    [units : {<<>>},
     items_components : {<<>>, [c \in {"Recurve Bow"} |-> 0], [c \in {"Recurve Bow"} |-> 1],
                         [c \in {"Needlessly Large Rod"} |-> 1]},
     augments : {<<>>, <<"Double Trouble II">>, <<"Double Trouble II", "Double Trouble III">>},
     stage : StageStrings]

\* The notes a build of the library declares (the critical pivot note of the
\* double_trouble_fan_service fixture first).
Trig(ma, hc, sm, pv) ==
    [missing_augments_any |-> ma, have_components_any |-> hc, stage_min |-> sm,
     suggest_pivot_to |-> pv]

CriticalPivotNote ==
    [severity |-> "critical", text |-> "Pivot if the augment is missing.",
     triggers |-> Trig(<<"Double Trouble II", "Double Trouble III">>, <<>>,
                       Some(Str(<<"3", "-", "2">>)), Some("sniper_squad"))]

NoteLibrary ==
    {CriticalPivotNote,
     [severity |-> "info", text |-> "Slam a Bow item.",
      triggers |-> Trig(<<>>, <<"Recurve Bow">>, None, None)],
     [severity |-> "warning", text |-> "Late rods.",
      triggers |-> Trig(<<>>, <<"Recurve Bow", "Needlessly Large Rod">>,
                        Some(Str(<<"3", "-", "1", "0">>)), None)],
     [severity |-> "info", text |-> "Always shown.",
      triggers |-> Trig(<<>>, <<>>, None, Some("sniper_squad"))],
     [severity |-> "warning", text |-> "Need the first augment.",
      triggers |-> Trig(<<"Double Trouble II">>, <<"Recurve Bow">>, None, None)]}

\* _evaluate_single on one note
EvaluateSingle ==
    /\ nt.pc = "single"
    /\ nt' = [nt EXCEPT !.pc = "evaluated"] @@ [result |-> _evaluate_single(nt.note, nt.inv)]
    /\ UNCHANGED <<asg, crf, sc, nm, mdl, stg, an, ld, ing, ui>>

InitNote ==
    /\ \E note \in Notes, inv \in NoteInventories :
          nt = [pc |-> "single", note |-> note, inv |-> inv]
    /\ asg = Idle /\ crf = Idle /\ sc = Idle /\ nm = Idle
    /\ mdl = Idle /\ stg = Idle /\ an = Idle /\ ld = Idle /\ ing = Idle
    /\ ui = Idle

NextNote == EvaluateSingle

SpecNote == InitNote /\ [][NextNote]_vars

\* evaluate_notes on a build's note list, one loop iteration per step
NotesLoop ==
    /\ nt.pc = "loop"
    /\ nt.idx <= Len(nt.notes)
    /\ nt' = NotesStep(nt)
    /\ UNCHANGED <<asg, crf, sc, nm, mdl, stg, an, ld, ing, ui>>

NotesReturn ==
    /\ nt.pc = "loop"
    /\ nt.idx > Len(nt.notes)
    /\ nt' = [nt EXCEPT !.pc = "done"]
    /\ UNCHANGED <<asg, crf, sc, nm, mdl, stg, an, ld, ing, ui>>

InitNotes ==
    /\ \E notes \in SeqsUpTo(NoteLibrary, MaxNotes), inv \in NoteInventories :
          nt = NotesStart(notes, inv)
    /\ asg = Idle /\ crf = Idle /\ sc = Idle /\ nm = Idle
    /\ mdl = Idle /\ stg = Idle /\ an = Idle /\ ld = Idle /\ ing = Idle
    /\ ui = Idle

NextNotes == NotesLoop \/ NotesReturn

SpecNotes == InitNotes /\ [][NextNotes]_vars

\* ------------------------------------------------------------------------
\* Exact arithmetic for the scores. A score is a fraction <<n, d>> in lowest
\* terms with d > 0; the decimal literals of the source are the fractions
\* they denote (0.60 = 3/5); binary rounding of the floats is not modelled.
\* ------------------------------------------------------------------------
Abs(n) == IF n < 0 THEN -n ELSE n

RECURSIVE GCD(_, _)
GCD(a, b) == IF b = 0 THEN a ELSE GCD(b, a % b)

LCM(a, b) == (a \div GCD(a, b)) * b

Rat(n, d) == LET g == GCD(Abs(n), d) IN <<n \div g, d \div g>>

Zero == <<0, 1>>
One == <<1, 1>>

RAdd(x, y) ==
    LET l == LCM(x[2], y[2]) IN Rat(x[1] * (l \div x[2]) + y[1] * (l \div y[2]), l)

RMul(x, y) ==
    LET g1 == GCD(Abs(x[1]), y[2])
        g2 == GCD(Abs(y[1]), x[2])
    IN Rat((x[1] \div g1) * (y[1] \div g2), (x[2] \div g2) * (y[2] \div g1))

RLe(x, y) == LET l == LCM(x[2], y[2]) IN x[1] * (l \div x[2]) <= y[1] * (l \div y[2])

RLt(x, y) == ~RLe(y, x)

\* Python's min(a, b) and max(a, b): the first argument wins ties
RMin(a, b) == IF RLt(b, a) THEN b ELSE a

RMax(a, b) == IF RLt(a, b) THEN b ELSE a

\* max(0.0, min(1.0, x))
Clamp01(x) == RMax(Zero, RMin(One, x))

Max(a, b) == IF a >= b THEN a ELSE b

Min(a, b) == IF a <= b THEN a ELSE b

\* ------------------------------------------------------------------------
\* core/scoring.py
\* ------------------------------------------------------------------------
STAGE_WEIGHTS ==
    [b \in {"early", "mid", "late"} |->
        CASE b = "early" -> [early |-> Rat(60, 100), mid |-> Rat(25, 100), late |-> Rat(15, 100)]
          [] b = "mid" -> [early |-> Rat(20, 100), mid |-> Rat(55, 100), late |-> Rat(25, 100)]
          [] b = "late" -> [early |-> Rat(10, 100), mid |-> Rat(25, 100), late |-> Rat(65, 100)]]

TIER_PRIOR ==
    [t \in {"S", "A", "B", "C", "X"} |->
        CASE t = "S" -> Rat(10, 10) [] t = "A" -> Rat(6, 10) [] t = "B" -> Rat(3, 10)
          [] t = "C" -> Rat(0, 10) [] t = "X" -> Rat(-2, 10)]

MAX_RANK_BONUS == Rat(20, 100)

WEIGHTS_without_prior ==
    [k \in {"champions", "items", "prior"} |->
        CASE k = "champions" -> Rat(50, 100) [] k = "items" -> Rat(50, 100)
          [] k = "prior" -> Rat(0, 100)]

WEIGHTS ==
    [k \in {"champions", "items", "prior"} |->
        CASE k = "champions" -> Rat(50, 100) [] k = "items" -> Rat(40, 100)
          [] k = "prior" -> Rat(10, 100)]

MAX_BIS_BONUS == Rat(15, 100)

Half == Rat(5, 10)

_presence_ratio_owned(have_units, target) ==
    IF target = <<>> \/ DOMAIN have_units = {} THEN Zero
    ELSE LET hit == Cardinality({i \in DOMAIN target : Get(have_units, target[i], 0) > 0})
         IN Rat(hit, Cardinality(DOMAIN have_units))

_presence_ratio(have_units, target) ==
    IF target = <<>> THEN Zero
    ELSE LET hit == Cardinality({i \in DOMAIN target : Get(have_units, target[i], 0) > 0})
         IN Rat(hit, Len(target))

RECURSIVE CoreAccum(_, _)
CoreAccum(core_units, units) ==
    IF core_units = <<>> THEN Zero
    ELSE LET cu == core_units[Len(core_units)]
             have == Get(units, cu.name, 0)
             contrib == IF have > 0 THEN RMin(Rat(have, Max(cu.star_goal, 1)), One) ELSE Zero
         IN RAdd(CoreAccum(SubSeq(core_units, 1, Len(core_units) - 1), units), contrib)

_core_units_score(build, inv) ==
    IF build.core_units = <<>> THEN Zero
    ELSE RMul(CoreAccum(build.core_units, inv.units), Rat(1, Len(build.core_units)))

_score_champions(build, inv, bucket) ==
    LET weights == STAGE_WEIGHTS[bucket]
        s_early == _presence_ratio(inv.units, build.early_comp)
        s_mid == _presence_ratio(inv.units, build.mid_comp)
        s_late == _presence_ratio(inv.units, build.late_comp)
        stage_presence == RAdd(RAdd(RMul(weights.early, s_early), RMul(weights.mid, s_mid)),
                               RMul(weights.late, s_late))
        core_progress == _core_units_score(build, inv)
    IN [stage_presence |-> Clamp01(stage_presence),
        core_progress |-> Clamp01(core_progress),
        early |-> s_early, mid |-> s_mid, late |-> s_late]

\* AssignmentResult.coverage
coverage(assignment) == Rat(assignment.matched, Max(assignment.total, 1))

\* sum(len(v) for v in build.bis_items.values()) or 1
DesiredTotal(bis_items) ==
    LET n == SumSeq([i \in 1..Len(bis_items) |-> Len(bis_items[i].desired)])
    IN IF n = 0 THEN 1 ELSE n

\* list(dict.fromkeys(xs)): the first occurrence of every element, in order
RECURSIVE Dedupe(_)
Dedupe(xs) ==
    IF xs = <<>> THEN <<>>
    ELSE LET init == Dedupe(SubSeq(xs, 1, Len(xs) - 1))
         IN IF xs[Len(xs)] \in Range(init) THEN init ELSE Append(init, xs[Len(xs)])

_score_items_deduped(build, inv, recipes) ==
    LET assignment == assign_components_by_priority(Dedupe(build.item_priority_components),
                                                    inv.items_components)
        base == coverage(assignment)
        use_bis == recipes # <<>> /\ build.bis_items # <<>>
        craft == craftable_bis_items(build.bis_items, recipes, inv.items_components, None)
        ratio == RMin(One, Rat(Len(craft.crafted), DesiredTotal(build.bis_items)))
        bis_bonus ==
            IF use_bis
            THEN RMin(MAX_BIS_BONUS,
                      RAdd(RMul(RMul(Half, MAX_BIS_BONUS), ratio),
                           IF craft.crafted # <<>> THEN RMul(Half, MAX_BIS_BONUS) ELSE Zero))
            ELSE Zero
    IN [items_score |-> Clamp01(RAdd(base, bis_bonus)),
        assignment |-> assignment,
        bis_bonus |-> bis_bonus,
        crafted |-> IF use_bis THEN craft.crafted ELSE <<>>]

_score_items(build, inv, recipes) ==
    LET assignment == assign_components_by_priority(build.item_priority_components,
                                                    inv.items_components)
        base == coverage(assignment)
        use_bis == recipes # <<>> /\ build.bis_items # <<>>
        craft == craftable_bis_items(build.bis_items, recipes, inv.items_components, None)
        ratio == RMin(One, Rat(Len(craft.crafted), DesiredTotal(build.bis_items)))
        bis_bonus ==
            IF use_bis
            THEN RMin(MAX_BIS_BONUS,
                      RAdd(RMul(RMul(Half, MAX_BIS_BONUS), ratio),
                           IF craft.crafted # <<>> THEN RMul(Half, MAX_BIS_BONUS) ELSE Zero))
            ELSE Zero
    IN [items_score |-> Clamp01(RAdd(base, bis_bonus)),
        assignment |-> assignment,
        bis_bonus |-> bis_bonus,
        crafted |-> IF use_bis THEN craft.crafted ELSE <<>>]

\* str.upper on a tier letter
upper(t) ==
    CASE t = "s" -> "S" [] t = "a" -> "A" [] t = "b" -> "B" [] t = "c" -> "C"
      [] t = "x" -> "X" [] OTHER -> t

\* the rank bonus shrinks over twenty ranks instead of ten
_tier_prior_over_twenty(tier, tier_rank) ==
    LET base == Get(TIER_PRIOR, upper(tier), Zero)
        rank_quality == RMax(Zero, RMin(One, RAdd(One, Rat(-(Max(1, tier_rank) - 1), 20))))
        bonus == RMul(MAX_RANK_BONUS, rank_quality)
    IN Clamp01(RAdd(base, bonus))

_tier_prior(tier, tier_rank) ==
    LET base == Get(TIER_PRIOR, upper(tier), Zero)
        rank_quality == RMax(Zero, RMin(One, RAdd(One, Rat(-(Max(1, tier_rank) - 1), 10))))
        bonus == RMul(MAX_RANK_BONUS, rank_quality)
    IN Clamp01(RAdd(base, bonus))

\* w = dict(WEIGHTS); w.update({k: v for k, v in weights.items() if k in w})
EffectiveWeights(weights) ==
    [k \in DOMAIN WEIGHTS |-> IF k \in DOMAIN weights THEN weights[k] ELSE WEIGHTS[k]]

WeightedSum(w, champions_score, items_score, prior_score) ==
    RAdd(RAdd(RMul(w["champions"], champions_score), RMul(w["items"], items_score)),
         RMul(w["prior"], prior_score))

WeightedTotalUnclamped(w, champions_score, items_score, prior_score) ==
    WeightedSum(w, champions_score, items_score, prior_score)

\* total = max(0.0, min(1.0, w.c * champions + w.i * items + w.p * prior))
WeightedTotal(w, champions_score, items_score, prior_score) ==
    Clamp01(WeightedSum(w, champions_score, items_score, prior_score))

score_build(build, inv, recipes, weights) ==
    LET bucket == stage_bucket(inv.stage)
        champ_parts == _score_champions(build, inv, bucket)
        champions_score ==
            Clamp01(RAdd(RMul(Rat(7, 10), champ_parts.stage_presence),
                         RMul(Rat(3, 10), champ_parts.core_progress)))
        item_parts == _score_items(build, inv, recipes)
        items_score == item_parts.items_score
        prior_score == _tier_prior(build.tier, build.tier_rank)
        w == EffectiveWeights(weights)
        total == WeightedTotal(w, champions_score, items_score, prior_score)
    IN [total |-> total,
        champions |-> champions_score,
        items |-> items_score,
        prior |-> prior_score,
        stage_bucket |-> bucket,
        details |-> [early |-> champ_parts.early, mid |-> champ_parts.mid,
                     late |-> champ_parts.late,
                     stage_presence |-> champ_parts.stage_presence,
                     core_progress |-> champ_parts.core_progress,
                     assignment |-> item_parts.assignment,
                     bis_bonus |-> item_parts.bis_bonus,
                     crafted |-> item_parts.crafted]]

\* Input families of score_build: valid Build and Inventory records.
MaxRank == 12

Champions == {"Gnar", "Sivir", "Jhin"}

Cu(name, star_goal) == [name |-> name, star_goal |-> star_goal, required |-> FALSE]

MkBuild(tier, tier_rank, champs, priority, bis) ==
    [id |-> "demo", name |-> "Demo", tier |-> tier, tier_rank |-> tier_rank,
     core_units |-> champs.core_units, early_comp |-> champs.early_comp,
     mid_comp |-> champs.mid_comp, late_comp |-> champs.late_comp,
     item_priority_components |-> priority, bis_items |-> bis]

MkInventory(units, items_components, stage) ==
    [units |-> units, items_components |-> items_components, augments |-> <<>>,
     stage |-> stage]

Tiers == {"S", "A", "B", "C", "X"}

ChampionShapes ==
    {[core_units |-> <<>>, early_comp |-> <<>>, mid_comp |-> <<>>, late_comp |-> <<>>],
     [core_units |-> <<Cu("Jhin", 2)>>, early_comp |-> <<"Gnar">>,
      mid_comp |-> <<"Sivir">>, late_comp |-> <<"Jhin">>],
     [core_units |-> <<Cu("Jhin", 3), Cu("Gnar", 1)>>, early_comp |-> <<"Gnar", "Sivir">>,
      mid_comp |-> <<"Gnar", "Sivir", "Jhin">>, late_comp |-> <<"Sivir", "Jhin">>]}

DoubleTroublePriority ==
    <<"Recurve Bow", "Needlessly Large Rod", "Recurve Bow", "Negatron Cloak",
      "Giant's Belt", "B.F. Sword">>

ScorePriorities ==
    {<<>>, <<"Needlessly Large Rod">>,
     <<"Recurve Bow", "Needlessly Large Rod", "Recurve Bow">>, DoubleTroublePriority}

ScoreBis ==
    {<<>>, WantsGuinsoo,
     <<[carry |-> "Jhin", desired |-> <<"Rabadon's Deathcap", "Guinsoo's Rageblade">>],
       [carry |-> "Sivir", desired |-> <<"Guinsoo's Rageblade">>]>>}

ScoreBuilds ==
    {MkBuild(t, r, c, p, b) : t \in Tiers, r \in {1, MaxRank}, c \in ChampionShapes,
                              p \in ScorePriorities, b \in ScoreBis}

ScoreUnits ==
    {<<>>, [c \in {"Gnar", "Sivir"} |-> 1], [c \in Champions |-> IF c = "Jhin" THEN 3 ELSE 0]}

ScoreStocks ==
    [{"Recurve Bow", "Needlessly Large Rod"} -> 0..MaxCount]
    \cup {[c \in {"Recurve Bow", "Negatron Cloak"} |-> 1]}

ScoreStages == {Str(<<"2", "-", "1">>), Str(<<"3", "-", "2">>), Str(<<"4", "-", "2">>)}

ScoreInventories ==
    {MkInventory(u, c, st) : u \in ScoreUnits, c \in ScoreStocks, st \in ScoreStages}

CatalogRecipes ==
    [i \in BisItems |->
        IF i = "Guinsoo's Rageblade"
        THEN <<"Recurve Bow", "Needlessly Large Rod">>
        ELSE <<"Needlessly Large Rod", "Needlessly Large Rod">>]

\* recipes=None or the catalog's recipe map
ScoreRecipes == {None, CatalogRecipes}

\* weights=None or an override (negative, above 1, unknown keys)
WeightOverrides ==
    {None,
     [k \in {"champions"} |-> Rat(-1, 1)],
     [k \in {"items", "bogus"} |-> Rat(5, 2)],
     [k \in {"champions", "items", "prior"} |-> Rat(3, 2)]}

Score ==
    /\ sc.pc = "ready"
    /\ sc' = [sc EXCEPT !.pc = "scored"]
              @@ [score |-> score_build(sc.build, sc.inv, sc.recipes, sc.weights)]
    /\ UNCHANGED <<asg, crf, nt, nm, mdl, stg, an, ld, ing, ui>>

InitScore ==
    /\ \E build \in ScoreBuilds, inv \in ScoreInventories, recipes \in ScoreRecipes,
          weights \in WeightOverrides :
          sc = [pc |-> "ready", build |-> build, inv |-> inv, recipes |-> recipes,
                weights |-> weights]
    /\ asg = Idle /\ crf = Idle /\ nt = Idle /\ nm = Idle
    /\ mdl = Idle /\ stg = Idle /\ an = Idle /\ ld = Idle /\ ing = Idle
    /\ ui = Idle

NextScore == Score

SpecScore == InitScore /\ [][NextScore]_vars

\* A champion is added to the inventory of a scored build and the build is
\* scored again against the new inventory.
MaxComp == 2
MaxCore == 2
MaxStar == 3

CompLists == SeqsUpTo({"Gnar", "Jhin"}, MaxComp)

CoreChoices == {Cu("Jhin", 2), Cu("Jhin", 3), Cu("Gnar", 1)}

ChampionBuilds ==
    {MkBuild("A", 1,
             [core_units |-> cu, early_comp |-> e, mid_comp |-> m, late_comp |-> l],
             <<>>, <<>>) :
        cu \in SeqsUpTo(CoreChoices, MaxCore), e \in CompLists,
        m \in {<<>>, <<"Sivir", "Jhin">>}, l \in {<<>>, <<"Jhin", "Gnar">>}}

ChampionInventories ==
    {MkInventory(u, <<>>, st) : u \in Dicts({"Gnar", "Jhin"}, 0..MaxStar), st \in ScoreStages}

WithUnit(units, name, stars) ==
    [k \in DOMAIN units \cup {name} |-> IF k = name THEN stars ELSE units[k]]

AddUnit ==
    /\ sc.pc = "scored"
    /\ \E name \in Champions, stars \in 1..MaxStar :
          /\ Get(sc.inv.units, name, 0) = 0
          /\ LET inv2 == [sc.inv EXCEPT !.units = WithUnit(@, name, stars)] IN
             sc' = [pc |-> "rescored", build |-> sc.build, inv |-> inv2,
                    recipes |-> sc.recipes, weights |-> sc.weights,
                    added |-> [name |-> name, stars |-> stars],
                    before |-> sc.score,
                    score |-> score_build(sc.build, inv2, sc.recipes, sc.weights)]
    /\ UNCHANGED <<asg, crf, nt, nm, mdl, stg, an, ld, ing, ui>>

InitChampions ==
    /\ \E build \in ChampionBuilds, inv \in ChampionInventories :
          sc = [pc |-> "ready", build |-> build, inv |-> inv, recipes |-> None,
                weights |-> None]
    /\ asg = Idle /\ crf = Idle /\ nt = Idle /\ nm = Idle
    /\ mdl = Idle /\ stg = Idle /\ an = Idle /\ ld = Idle /\ ing = Idle
    /\ ui = Idle

NextChampions == Score \/ AddUnit

SpecChampions == InitChampions /\ [][NextChampions]_vars

\* Two builds are scored, one after the other, against the same inventory
\* with the default weights.
RankPriors == {<<"S", 1>>, <<"A", 1>>, <<"A", 2>>, <<"X", MaxRank>>}

RankItems ==
    {[priority |-> <<>>, bis |-> <<>>],
     [priority |-> <<"Recurve Bow", "Needlessly Large Rod", "Recurve Bow">>, bis |-> WantsGuinsoo],
     [priority |-> DoubleTroublePriority, bis |-> <<>>]}

RankBuilds ==
    {MkBuild(p[1], p[2], c, i.priority, i.bis) :
        p \in RankPriors, c \in ChampionShapes, i \in RankItems}

RankInventories ==
    {MkInventory(u, c, st) :
        u \in ScoreUnits,
        c \in {<<>>, [k \in {"Recurve Bow", "Negatron Cloak"} |-> 1],
                [k \in {"Recurve Bow", "Needlessly Large Rod"} |-> 1],
                [k \in {"Recurve Bow", "Needlessly Large Rod"} |-> MaxCount]},
        st \in {Str(<<"3", "-", "2">>), Str(<<"4", "-", "2">>)}}

ScoreFirst ==
    /\ sc.pc = "pair"
    /\ sc' = [sc EXCEPT !.pc = "first"]
              @@ [s_a |-> score_build(sc.a, sc.inv, sc.recipes, None)]
    /\ UNCHANGED <<asg, crf, nt, nm, mdl, stg, an, ld, ing, ui>>

ScoreSecond ==
    /\ sc.pc = "first"
    /\ sc' = [sc EXCEPT !.pc = "both"]
              @@ [s_b |-> score_build(sc.b, sc.inv, sc.recipes, None)]
    /\ UNCHANGED <<asg, crf, nt, nm, mdl, stg, an, ld, ing, ui>>

InitRank ==
    /\ \E a \in RankBuilds, b \in RankBuilds, inv \in RankInventories :
          sc = [pc |-> "pair", a |-> a, b |-> b, inv |-> inv, recipes |-> CatalogRecipes]
    /\ asg = Idle /\ crf = Idle /\ nt = Idle /\ nm = Idle
    /\ mdl = Idle /\ stg = Idle /\ an = Idle /\ ld = Idle /\ ing = Idle
    /\ ui = Idle

NextRank == ScoreFirst \/ ScoreSecond

SpecRank == InitRank /\ [][NextRank]_vars

\* ------------------------------------------------------------------------
\* core/scoring.py: _tier_prior called for a rank and for the next rank
\* ------------------------------------------------------------------------
PriorTiers == Tiers \cup {"a", "D"}

PriorFirst ==
    /\ sc.pc = "prior"
    /\ sc' = [sc EXCEPT !.pc = "prior_first"] @@ [p_rank |-> _tier_prior(sc.tier, sc.tier_rank)]
    /\ UNCHANGED <<asg, crf, nt, nm, mdl, stg, an, ld, ing, ui>>

PriorSecond ==
    /\ sc.pc = "prior_first"
    /\ sc' = [sc EXCEPT !.pc = "prior_both"]
              @@ [p_next |-> _tier_prior(sc.tier, sc.tier_rank + 1)]
    /\ UNCHANGED <<asg, crf, nt, nm, mdl, stg, an, ld, ing, ui>>

InitPrior ==
    /\ \E tier \in PriorTiers, tier_rank \in 1..MaxRank :
          sc = [pc |-> "prior", tier |-> tier, tier_rank |-> tier_rank]
    /\ asg = Idle /\ crf = Idle /\ nt = Idle /\ nm = Idle
    /\ mdl = Idle /\ stg = Idle /\ an = Idle /\ ld = Idle /\ ing = Idle
    /\ ui = Idle

NextPrior == PriorFirst \/ PriorSecond

SpecPrior == InitPrior /\ [][NextPrior]_vars

\* ------------------------------------------------------------------------
\* One build and one inventory handed to score_build, evaluate_notes and
\* the two solver operations.  asg.have and crf.components are the
\* inventory's items_components mapping as the solver calls hold it; the
\* build is scored once the solver calls have returned and then scored
\* again against the inventory as it is by then.
\* ------------------------------------------------------------------------
\* the inventory as it is after the solver calls
InventoryNow == [sc.inv EXCEPT !.items_components = asg.have]

FrameBuilds ==
    {MkBuild("A", 2, c, i.priority, i.bis) @@ [notes |-> n] :
        c \in ChampionShapes, i \in RankItems,
        n \in {<<>>, <<CriticalPivotNote>>,
               <<[severity |-> "info", text |-> "Slam a Bow item.",
                  triggers |-> Trig(<<>>, <<"Recurve Bow">>, None, None)],
                 CriticalPivotNote>>}}

FrameInventories ==
    {[MkInventory(u, c, Str(<<"3", "-", "2">>)) EXCEPT !.augments = a] :
        u \in {<<>>, [k \in {"Gnar", "Sivir"} |-> 1]},
        c \in {<<>>, [k \in {"Recurve Bow", "Negatron Cloak"} |-> 1],
               [k \in {"Recurve Bow", "Needlessly Large Rod"} |-> MaxCount],
               [k \in {"Recurve Bow", "Needlessly Large Rod"} |->
                   IF k = "Recurve Bow" THEN 1 ELSE -1]},
        a \in {<<>>, <<"Double Trouble II">>}}

FrameScore ==
    /\ sc.pc = "frame" /\ asg.pc = "done" /\ crf.pc = "done"
    /\ sc' = [sc EXCEPT !.pc = "scored"]
              @@ [score |-> score_build(sc.build, sc.inv, sc.recipes, None)]
    /\ UNCHANGED <<asg, crf, nt, nm, mdl, stg, an, ld, ing, ui>>

FrameScoreAgain ==
    /\ sc.pc = "scored"
    /\ sc' = [sc EXCEPT !.pc = "rescored"]
              @@ [again |-> score_build(sc.build, InventoryNow, sc.recipes, None)]
    /\ UNCHANGED <<asg, crf, nt, nm, mdl, stg, an, ld, ing, ui>>

InitFrame ==
    /\ \E build \in FrameBuilds, inv \in FrameInventories :
          /\ sc = [pc |-> "frame", build |-> build, inv |-> inv, recipes |-> CatalogRecipes]
          /\ asg = AssignStart(build.item_priority_components, inv.items_components)
          /\ crf = CraftStart(build.bis_items, CatalogRecipes, inv.items_components, None)
          /\ nt = NotesStart(build.notes, inv)
    /\ nm = Idle /\ mdl = Idle /\ stg = Idle /\ an = Idle /\ ld = Idle /\ ing = Idle
    /\ ui = Idle

NextFrame ==
    \/ AssignLoop \/ AssignReturn
    \/ CraftCarry \/ CraftItem \/ CraftCarryDone \/ CraftReturn
    \/ NotesLoop \/ NotesReturn
    \/ FrameScore \/ FrameScoreAgain

SpecFrame == InitFrame /\ [][NextFrame]_vars

\* ------------------------------------------------------------------------
\* core/models.py: the validators that run when a CoreUnit, a Build, a
\* NoteTriggers or an Inventory is constructed from raw input.  Only the
\* name-carrying fields are modelled; the scalar fields (id, name, tier,
\* tier_rank, patch, stage) have validators of their own that touch no
\* name.
\* ------------------------------------------------------------------------
RECURSIVE MapNormalize(_)
MapNormalize(values) ==
    IF values = <<>> THEN <<>>
    ELSE <<_normalize_name(values[1])>> \o MapNormalize(Tail(values))

RECURSIVE MapStrip(_)
MapStrip(values) ==
    IF values = <<>> THEN <<>> ELSE <<strip(values[1])>> \o MapStrip(Tail(values))

NonEmpty(values) == SelectSeqBy(values, {v \in Range(values) : v # <<>>})

CoreUnit_v_name(v) == _normalize_name(v)

\* [n for n in (_normalize_name(v) for v in (values or [])) if n]
_v_comp_lists(values) == NonEmpty(MapNormalize(values))

_v_item_components(values) == NonEmpty(MapNormalize(values))

\* normalized[key] = value on an insertion-ordered dict kept as a sequence
\* of [carry, desired] entries: an existing key keeps its position.
DictSet(d, key, value) ==
    IF \E i \in DOMAIN d : d[i].carry = key
    THEN [i \in DOMAIN d |-> IF d[i].carry = key THEN [carry |-> key, desired |-> value] ELSE d[i]]
    ELSE Append(d, [carry |-> key, desired |-> value])

\* [i.strip() for i in items if i and i.strip()]
StripItems(items) == NonEmpty(MapStrip(items))

RECURSIVE BisLoop(_, _)
BisLoop(mapping, normalized) ==
    IF mapping = <<>> THEN normalized
    ELSE BisLoop(Tail(mapping),
                 DictSet(normalized, _normalize_name(mapping[1].carry),
                         StripItems(mapping[1].desired)))

_v_bis(mapping) == BisLoop(mapping, <<>>)

_v_lists(values) == MapNormalize(values)

_v_augments(values) == MapNormalize(values)

RECURSIVE MapCoreUnits(_)
MapCoreUnits(raw) ==
    IF raw = <<>> THEN <<>>
    ELSE <<[raw[1] EXCEPT !.name = CoreUnit_v_name(@)]>> \o MapCoreUnits(Tail(raw))

BuildFields(raw) ==
    [core_units |-> MapCoreUnits(raw.core_units),
     early_comp |-> _v_comp_lists(raw.early_comp),
     mid_comp |-> _v_comp_lists(raw.mid_comp),
     late_comp |-> _v_comp_lists(raw.late_comp),
     item_priority_components |-> _v_item_components(raw.item_priority_components),
     bis_items |-> _v_bis(raw.bis_items)]

NoteTriggersFields(raw) ==
    [missing_augments_any |-> _v_lists(raw.missing_augments_any),
     have_components_any |-> _v_lists(raw.have_components_any)]

InventoryFields(raw) == [augments |-> _v_augments(raw.augments)]

\* Families of raw input
MaxNames == 2
MaxBisEntries == 2

RawSamples ==
    {<<"a">>, <<" ", "a">>, <<"a", "*">>, <<"a", " ", "*", "\t">>, <<"a", "*", "*">>,
     <<"*">>, <<" ">>}

ItemSamples == {<<"a">>, <<"a", " ">>, <<"a", "*">>, <<>>}

RawLists == SeqsUpTo(RawSamples, MaxNames)

RawBisEntries == [carry : RawSamples, desired : SeqsUpTo(ItemSamples, 1)]

\* a raw mapping has distinct keys
RawBis ==
    {m \in SeqsUpTo(RawBisEntries, MaxBisEntries) :
        \A i, j \in DOMAIN m : i # j => m[i].carry # m[j].carry}

RawCore(names) == [i \in DOMAIN names |-> Cu(names[i], 2)]

EmptyBuildRaw ==
    [core_units |-> <<>>, early_comp |-> <<>>, mid_comp |-> <<>>, late_comp |-> <<>>,
     item_priority_components |-> <<>>, bis_items |-> <<>>]

\* one field at a time takes every raw value; the validators of the other
\* fields see the empty default
BuildRaws ==
    {[EmptyBuildRaw EXCEPT !.core_units = RawCore(xs)] : xs \in RawLists}
    \cup {[EmptyBuildRaw EXCEPT ![f] = xs] :
            f \in {"early_comp", "mid_comp", "late_comp", "item_priority_components"},
            xs \in RawLists}
    \cup {[EmptyBuildRaw EXCEPT !.bis_items = m] : m \in RawBis}

NoteTriggersRaws == [missing_augments_any : RawLists, have_components_any : SeqsUpTo(RawSamples, 1)]

InventoryRaws == [augments : RawLists]

ConstructBuild ==
    /\ mdl.pc = "raw" /\ mdl.cls = "Build"
    /\ mdl' = [mdl EXCEPT !.pc = "built", !.obj = BuildFields(mdl.raw)]
    /\ UNCHANGED <<asg, crf, sc, nt, nm, stg, an, ld, ing, ui>>

ConstructNoteTriggers ==
    /\ mdl.pc = "raw" /\ mdl.cls = "NoteTriggers"
    /\ mdl' = [mdl EXCEPT !.pc = "built", !.obj = NoteTriggersFields(mdl.raw)]
    /\ UNCHANGED <<asg, crf, sc, nt, nm, stg, an, ld, ing, ui>>

ConstructInventory ==
    /\ mdl.pc = "raw" /\ mdl.cls = "Inventory"
    /\ mdl' = [mdl EXCEPT !.pc = "built", !.obj = InventoryFields(mdl.raw)]
    /\ UNCHANGED <<asg, crf, sc, nt, nm, stg, an, ld, ing, ui>>

InitModels ==
    /\ \/ \E raw \in BuildRaws : mdl = [pc |-> "raw", cls |-> "Build", raw |-> raw, obj |-> <<>>]
       \/ \E raw \in NoteTriggersRaws :
             mdl = [pc |-> "raw", cls |-> "NoteTriggers", raw |-> raw, obj |-> <<>>]
       \/ \E raw \in InventoryRaws :
             mdl = [pc |-> "raw", cls |-> "Inventory", raw |-> raw, obj |-> <<>>]
    /\ asg = Idle /\ crf = Idle /\ sc = Idle /\ nt = Idle /\ nm = Idle
    /\ stg = Idle /\ an = Idle /\ ld = Idle /\ ing = Idle
    /\ ui = Idle

NextModels == ConstructBuild \/ ConstructNoteTriggers \/ ConstructInventory

SpecModels == InitModels /\ [][NextModels]_vars

\* ------------------------------------------------------------------------
\* core/types.py: calls of stage_bucket and stage_ge on stage strings,
\* the strings parse_stage rejects included
\* ------------------------------------------------------------------------
IsDigits(t) == t # <<>> /\ \A i \in DOMAIN t : t[i] \in DOMAIN DigitVal

\* what int() accepts here: decimal digits behind an optional sign, with
\* surrounding whitespace
IsIntText(text) ==
    LET t == strip(text) IN
    /\ t # <<>>
    /\ IF t[1] \in {"-", "+"} THEN IsDigits(Tail(t)) ELSE IsDigits(t)

signed_int(text) ==
    LET t == strip(text) IN
    IF t[1] = "-" THEN 0 - int(Tail(t)) ELSE IF t[1] = "+" THEN int(Tail(t)) ELSE int(t)

\* the three raise statements of parse_stage
parse_stage_raises(stage) ==
    \/ "-" \notin Range(stage)
    \/ LET parts == split_dash(stage) IN
       \/ ~IsIntText(parts[1]) \/ ~IsIntText(parts[2])
       \/ signed_int(parts[1]) <= 0 \/ signed_int(parts[2]) < 0

ValueError == "ValueError"

stage_bucket_call(stage) == IF parse_stage_raises(stage) THEN ValueError ELSE stage_bucket(stage)

stage_ge_call(a, b) ==
    IF parse_stage_raises(a) \/ parse_stage_raises(b) THEN ValueError ELSE stage_ge(a, b)

\* Families of stage strings: "R-S" written from the numbers, a few
\* spellings with whitespace, and strings that are not stages
MaxRound == 5
MaxStep == 11

DigitChars == <<"0", "1", "2", "3", "4", "5", "6", "7", "8", "9">>

RECURSIVE Decimal(_)
Decimal(n) ==
    IF n < 10 THEN <<DigitChars[n + 1]>> ELSE Decimal(n \div 10) \o <<DigitChars[(n % 10) + 1]>>

StageText(r, s) == Decimal(r) \o <<"-">> \o Decimal(s)

\* each sample carries the (round, step) it spells, or None
StageSamples ==
    {[text |-> StageText(r, s), rs |-> Some(<<r, s>>)] : r \in 1..MaxRound, s \in 0..MaxStep}
    \cup {[text |-> <<" ", "3", " ", "-", " ", "2", " ">>, rs |-> Some(<<3, 2>>)],
          [text |-> <<"0", "4", "-", "0", "1">>, rs |-> Some(<<4, 1>>)],
          [text |-> <<"0", "-", "5">>, rs |-> None],
          [text |-> <<"3", "-", "-", "1">>, rs |-> None],
          [text |-> <<"3", "2">>, rs |-> None],
          [text |-> <<"3", "-", "x">>, rs |-> None],
          [text |-> <<"3", "-">>, rs |-> None]}

BucketFirst ==
    /\ stg.pc = "pair"
    /\ stg' = [stg EXCEPT !.pc = "first", !.bucket_a = stage_bucket_call(stg.a.text)]
    /\ UNCHANGED <<asg, crf, sc, nt, nm, mdl, an, ld, ing, ui>>

BucketSecond ==
    /\ stg.pc = "first"
    /\ stg' = [stg EXCEPT !.pc = "both", !.bucket_b = stage_bucket_call(stg.b.text)]
    /\ UNCHANGED <<asg, crf, sc, nt, nm, mdl, an, ld, ing, ui>>

StageGe ==
    /\ stg.pc = "both"
    /\ stg' = [stg EXCEPT !.pc = "compared", !.ge = stage_ge_call(stg.b.text, stg.a.text)]
    /\ UNCHANGED <<asg, crf, sc, nt, nm, mdl, an, ld, ing, ui>>

InitStage ==
    /\ \E a \in StageSamples, b \in StageSamples :
          stg = [pc |-> "pair", a |-> a, b |-> b, bucket_a |-> "", bucket_b |-> "", ge |-> ""]
    /\ asg = Idle /\ crf = Idle /\ sc = Idle /\ nt = Idle /\ nm = Idle
    /\ mdl = Idle /\ an = Idle /\ ld = Idle /\ ing = Idle
    /\ ui = Idle

NextStage == BucketFirst \/ BucketSecond \/ StageGe

SpecStage == InitStage /\ [][NextStage]_vars

\* ------------------------------------------------------------------------
\* core/analytics.py: compute_champion_heat
\* ------------------------------------------------------------------------
RDiv(x, y) == Rat(x[1] * y[2], x[2] * y[1])

TIER_WEIGHTS ==
    [t \in Tiers |->
        CASE t = "S" -> One [] t = "A" -> Rat(85, 100) [] t = "B" -> Rat(70, 100)
          [] t = "C" -> Rat(50, 100) [] t = "X" -> Rat(35, 100)]

SECTION_WEIGHTS ==
    [s \in {"late", "final", "mid", "early"} |->
        CASE s = "late" -> One [] s = "final" -> One [] s = "mid" -> Rat(60, 100)
          [] s = "early" -> Rat(35, 100)]

CORE_MULTIPLIER == Rat(125, 100)

\* names of strings are the strings; names of CoreUnit objects are their .name
_iter_names(values) == [i \in DOMAIN values |-> values[i]]

CoreNames(b) == {b.core_units[i].name : i \in DOMAIN b.core_units}

\* acc[name] += weight on a defaultdict(float)
AccAdd(acc, name, weight) ==
    [k \in DOMAIN acc \cup {name} |->
        IF k = name THEN RAdd(Get(acc, name, Zero), weight) ELSE acc[k]]

RECURSIVE AccNames(_, _, _, _)
AccNames(acc, names, base, core_names) ==
    IF names = <<>> THEN acc
    ELSE AccNames(AccAdd(acc, names[1],
                         RMul(base, IF names[1] \in core_names THEN CORE_MULTIPLIER ELSE One)),
                  Tail(names), base, core_names)

\* Build has no comp attribute: getattr(b, "comp", []) is []
Sections(b) ==
    <<<<"late", _iter_names(b.late_comp)>>, <<"final", <<>>>>,
      <<"mid", _iter_names(b.mid_comp)>>, <<"early", _iter_names(b.early_comp)>>>>

RECURSIVE AccSections(_, _, _, _)
AccSections(acc, sections, tier_w, core_names) ==
    IF sections = <<>> THEN acc
    ELSE LET sec_w == Get(SECTION_WEIGHTS, sections[1][1], Zero)
             next == IF RLe(sec_w, Zero) THEN acc
                     ELSE AccNames(acc, sections[1][2], RMul(tier_w, sec_w), core_names)
         IN AccSections(next, Tail(sections), tier_w, core_names)

HeatStart(builds) == [pc |-> "loop", builds |-> builds, bi |-> 1, acc |-> <<>>]

\* one iteration of "for b in builds"
HeatStep(st) ==
    LET b == st.builds[st.bi]
        tier_w == Get(TIER_WEIGHTS, upper(b.tier), Rat(50, 100))
    IN [st EXCEPT !.bi = @ + 1,
                  !.acc = AccSections(st.acc, Sections(b), tier_w, CoreNames(b))]

RECURSIVE MaxOf(_)
MaxOf(xs) ==
    LET x == CHOOSE v \in xs : TRUE
    IN IF xs = {x} THEN x ELSE RMax(x, MaxOf(xs \ {x}))

\* the accumulated weights divided by the number of builds
HeatResultPerBuild(st) ==
    IF DOMAIN st.acc = {} THEN <<>>
    ELSE [k \in DOMAIN st.acc |-> RDiv(st.acc[k], Rat(Len(st.builds), 1))]

HeatResult(st) ==
    IF DOMAIN st.acc = {} THEN <<>>
    ELSE LET max_val == MaxOf({st.acc[k] : k \in DOMAIN st.acc}) IN
         IF RLe(max_val, Zero) THEN [k \in DOMAIN st.acc |-> Zero]
         ELSE [k \in DOMAIN st.acc |-> RDiv(st.acc[k], max_val)]

RECURSIVE HeatRun(_)
HeatRun(st) == IF st.bi <= Len(st.builds) THEN HeatRun(HeatStep(st)) ELSE st

compute_champion_heat(builds) == HeatResult(HeatRun(HeatStart(builds)))

\* Families
MaxBuilds == 3

HeatShapes ==
    {[core_units |-> <<>>, early_comp |-> <<>>, mid_comp |-> <<>>, late_comp |-> <<>>],
     [core_units |-> <<Cu("Jhin", 2)>>, early_comp |-> <<>>, mid_comp |-> <<>>,
      late_comp |-> <<"Jhin">>],
     [core_units |-> <<>>, early_comp |-> <<"Gnar">>, mid_comp |-> <<"Gnar">>,
      late_comp |-> <<"Jhin", "Gnar">>],
     [core_units |-> <<>>, early_comp |-> <<"Gnar">>, mid_comp |-> <<>>, late_comp |-> <<>>],
     [core_units |-> <<Cu("Gnar", 2)>>, early_comp |-> <<>>, mid_comp |-> <<>>,
      late_comp |-> <<"Jhin", "Jhin">>],
     [core_units |-> <<Cu("Sivir", 2)>>, early_comp |-> <<>>, mid_comp |-> <<"Sivir">>,
      late_comp |-> <<"Gnar">>]}

HeatBuilds == {MkBuild(t, 1, shape, <<>>, <<>>) : t \in {"S", "A", "X"}, shape \in HeatShapes}

HeatLoop ==
    /\ an.pc = "loop" /\ an.bi <= Len(an.builds)
    /\ an' = HeatStep(an)
    /\ UNCHANGED <<asg, crf, sc, nt, nm, mdl, stg, ld, ing, ui>>

HeatReturn ==
    /\ an.pc = "loop" /\ an.bi > Len(an.builds)
    /\ an' = [pc |-> "done", builds |-> an.builds, bi |-> an.bi, acc |-> an.acc,
              result |-> HeatResult(an)]
    /\ UNCHANGED <<asg, crf, sc, nt, nm, mdl, stg, ld, ing, ui>>

InitHeat ==
    /\ \E builds \in SeqsUpTo(HeatBuilds, MaxBuilds) : an = HeatStart(builds)
    /\ asg = Idle /\ crf = Idle /\ sc = Idle /\ nt = Idle /\ nm = Idle
    /\ mdl = Idle /\ stg = Idle /\ ld = Idle /\ ing = Idle
    /\ ui = Idle

NextHeat == HeatLoop \/ HeatReturn

SpecHeat == InitHeat /\ [][NextHeat]_vars

\* ------------------------------------------------------------------------
\* data/data_loader.py: _iter_yaml_files, load_build_from_yaml,
\* load_builds_from_dir.  A directory maps paths to file contents; a path
\* is [stem, ext] and paths sort by stem (the alphabetical rank of the
\* file name).
\* ------------------------------------------------------------------------
PathsOf(directory, ext) == {p \in DOMAIN directory : p.ext = ext}

\* sorted(paths): ascending by name
RECURSIVE SortedPaths(_)
SortedPaths(paths) ==
    IF paths = {} THEN <<>>
    ELSE LET p == CHOOSE x \in paths : \A y \in paths : x.stem <= y.stem
         IN <<p>> \o SortedPaths(paths \ {p})

\* both suffixes in one sorted pass
_iter_yaml_files_by_name(directory) ==
    SortedPaths(PathsOf(directory, ".yaml") \cup PathsOf(directory, ".yml"))

\* "*.yaml" files in sorted order, then "*.yml" files in sorted order
_iter_yaml_files(directory) ==
    SortedPaths(PathsOf(directory, ".yaml")) \o SortedPaths(PathsOf(directory, ".yml"))

InvalidContent == [id |-> "bad", name |-> ""]

DataLoadError(path, reason) == [error |-> "DataLoadError", path |-> path, reason |-> reason]

InvalidBuildError(build_id, errors) ==
    [error |-> "InvalidBuildError", build_id |-> build_id, errors |-> errors]

\* Build(**data): a content without a name fails validation
load_build_from_yaml(directory, path) ==
    LET data == directory[path] IN
    IF data.name = "" THEN InvalidBuildError(Some(data.id), <<"name must be non-empty">>)
    ELSE data

\* the f-string of the duplicate message, kept as its three parts
DuplicateMsg(id, file_path, first_path) == [id |-> id, path |-> file_path, first |-> first_path]

LoadStart(directory, strict_ids) ==
    IF directory = None
    THEN [pc |-> "raised", op |-> "load", directory |-> directory, strict_ids |-> strict_ids,
          error |-> DataLoadError("builds", "directory not found")]
    ELSE [pc |-> "loop", op |-> "load", directory |-> ValueOf(directory),
          strict_ids |-> strict_ids, files |-> _iter_yaml_files(ValueOf(directory)), fi |-> 1,
          builds |-> <<>>, seen_ids |-> <<>>, duplicates |-> <<>>]

\* one iteration of "for file_path in _iter_yaml_files(d)"
LoadStep(st) ==
    LET file_path == st.files[st.fi]
        b == load_build_from_yaml(st.directory, file_path)
    IN IF "error" \in DOMAIN b
       THEN [pc |-> "raised", op |-> "load", directory |-> st.directory,
             strict_ids |-> st.strict_ids, error |-> b]
       ELSE IF b.id \in DOMAIN st.seen_ids
       THEN IF st.strict_ids
            THEN [st EXCEPT !.fi = @ + 1,
                            !.duplicates = Append(@, DuplicateMsg(b.id, file_path, st.seen_ids[b.id]))]
            ELSE [st EXCEPT !.fi = @ + 1]
       ELSE [st EXCEPT !.fi = @ + 1,
                       !.seen_ids = [k \in DOMAIN st.seen_ids \cup {b.id} |->
                                        IF k = b.id THEN file_path ELSE st.seen_ids[k]],
                       !.builds = Append(@, b)]

LoadEnd(st) ==
    IF st.duplicates # <<>> /\ st.strict_ids
    THEN [pc |-> "raised", op |-> "load", directory |-> st.directory,
          strict_ids |-> st.strict_ids, error |-> InvalidBuildError(None, st.duplicates)]
    ELSE [pc |-> "returned", op |-> "load", directory |-> st.directory,
          strict_ids |-> st.strict_ids, files |-> st.files, result |-> st.builds]

\* Families
MaxStem == 2

Paths == [stem : 1..MaxStem, ext : {".yaml", ".yml"}] \cup {[stem |-> 1, ext |-> ".txt"]}

FileContents ==
    {[id |-> "sniper", name |-> "Sniper"], [id |-> "sniper", name |-> "Sniper copy"],
     [id |-> "duelist", name |-> "Duelist"], InvalidContent}

Directories == {None} \cup {Some(d) : d \in Dicts(Paths, FileContents)}

LoadLoop ==
    /\ ld.pc = "loop" /\ ld.op = "load" /\ ld.fi <= Len(ld.files)
    /\ ld' = LoadStep(ld)
    /\ UNCHANGED <<asg, crf, sc, nt, nm, mdl, stg, an, ing, ui>>

LoadReturn ==
    /\ ld.pc = "loop" /\ ld.op = "load" /\ ld.fi > Len(ld.files)
    /\ ld' = LoadEnd(ld)
    /\ UNCHANGED <<asg, crf, sc, nt, nm, mdl, stg, an, ing, ui>>

InitLoad ==
    /\ \E directory \in Directories, strict_ids \in BOOLEAN : ld = LoadStart(directory, strict_ids)
    /\ asg = Idle /\ crf = Idle /\ sc = Idle /\ nt = Idle /\ nm = Idle
    /\ mdl = Idle /\ stg = Idle /\ an = Idle /\ ing = Idle
    /\ ui = Idle

NextLoad == LoadLoop \/ LoadReturn

SpecLoad == InitLoad /\ [][NextLoad]_vars

\* ------------------------------------------------------------------------
\* data/data_loader.py: sort_builds_by_meta
\* ------------------------------------------------------------------------
_TIER_ORDER ==
    [t \in Tiers |-> CASE t = "S" -> 0 [] t = "A" -> 1 [] t = "B" -> 2 [] t = "C" -> 3 [] t = "X" -> 4]

\* code points of the characters used in names
Ord == [c \in {"A", "B", "a", "b"} |-> CASE c = "A" -> 65 [] c = "B" -> 66 [] c = "a" -> 97 [] c = "b" -> 98]

lower(name) == [i \in DOMAIN name |-> CASE name[i] = "A" -> "a" [] name[i] = "B" -> "b" [] OTHER -> name[i]]

\* Python's < on str: by code point, a proper prefix first
RECURSIVE StrLt(_, _)
StrLt(x, y) ==
    IF y = <<>> THEN FALSE
    ELSE IF x = <<>> THEN TRUE
    ELSE IF x[1] # y[1] THEN Ord[x[1]] < Ord[y[1]]
    ELSE StrLt(Tail(x), Tail(y))

\* Python's < on (int, int, str) tuples
KeyLt(k1, k2) ==
    \/ k1[1] < k2[1]
    \/ k1[1] = k2[1] /\ k1[2] < k2[2]
    \/ k1[1] = k2[1] /\ k1[2] = k2[2] /\ StrLt(k1[3], k2[3])

\* a key that keeps the name's case
_key_case_sensitive(b) == <<Get(_TIER_ORDER, b.tier, 99), b.tier_rank, b.name>>

_key(b) == <<Get(_TIER_ORDER, b.tier, 99), b.tier_rank, lower(b.name)>>

\* sorted(xs, key=...): a stable sort; x goes behind every element whose
\* key is not greater
RECURSIVE InsertByKey(_, _, _)
InsertByKey(sorted_xs, x, kx) ==
    IF sorted_xs = <<>> THEN <<x>>
    ELSE IF KeyLt(kx, _key(sorted_xs[1])) THEN <<x>> \o sorted_xs
    ELSE <<sorted_xs[1]>> \o InsertByKey(Tail(sorted_xs), x, kx)

RECURSIVE SortedByKey(_)
SortedByKey(xs) ==
    IF xs = <<>> THEN <<>>
    ELSE LET init == SubSeq(xs, 1, Len(xs) - 1)
             x == xs[Len(xs)]
         IN InsertByKey(SortedByKey(init), x, _key(x))

sort_builds_by_meta(builds) == SortedByKey(builds)

\* Families
MaxSort == 3

SortNames == {<<"a">>, <<"B">>, <<"b">>, <<"A", "b">>}

SortBuilds == [name : SortNames, tier : {"S", "A", "X"}, tier_rank : 1..2]

\* the caller's list stays in builds; the returned list is result
SortCall ==
    /\ ld.pc = "ready" /\ ld.op = "sort"
    /\ ld' = [ld EXCEPT !.pc = "returned", !.result = sort_builds_by_meta(ld.builds)]
    /\ UNCHANGED <<asg, crf, sc, nt, nm, mdl, stg, an, ing, ui>>

InitSort ==
    /\ \E builds \in SeqsUpTo(SortBuilds, MaxSort) :
          ld = [pc |-> "ready", op |-> "sort", arg |-> builds, builds |-> builds, result |-> <<>>]
    /\ asg = Idle /\ crf = Idle /\ sc = Idle /\ nt = Idle /\ nm = Idle
    /\ mdl = Idle /\ stg = Idle /\ an = Idle /\ ing = Idle
    /\ ui = Idle

NextSort == SortCall

SpecSort == InitSort /\ [][NextSort]_vars

\* ------------------------------------------------------------------------
\* scripts/update_builds.py: CatalogIndex, build_from_guide,
\* generate_builds.  Champion, item and API names are strings; the two key
\* functions are tables over the names that occur.  Tier labels, titles,
\* slugs and tip texts are sequences of characters.
\* ------------------------------------------------------------------------
\* re.sub(r"[^A-Za-z0-9]", "", value).lower()
normalise_key ==
    [n \in {"Jhin", "Gnar", "Sivir", "Galio", "Zyra", "Guinsoo's Rageblade",
            "Rabadon's Deathcap", "Recurve Bow", "Needlessly Large Rod"} |->
        CASE n = "Jhin" -> "jhin" [] n = "Gnar" -> "gnar" [] n = "Sivir" -> "sivir"
          [] n = "Galio" -> "galio" [] n = "Zyra" -> "zyra"
          [] n = "Guinsoo's Rageblade" -> "guinsoosrageblade"
          [] n = "Rabadon's Deathcap" -> "rabadonsdeathcap"
          [] n = "Recurve Bow" -> "recurvebow"
          [] n = "Needlessly Large Rod" -> "needlesslylargerod"]

\* the prefixes TFT<n>_, TFT_Item_, Item_ and every underscore removed,
\* then normalise_key
api_name_to_key ==
    [a \in {"", "TFT15_Jhin", "TFT15_Gnar", "TFT15_Galio", "TFT15_ZyraGraspingPlant",
            "TFT15_Voidling", "TFT_Item_GuinsoosRageblade", "TFT_Item_RecurveBow",
            "TFT_Item_Spatula"} |->
        CASE a = "" -> "" [] a = "TFT15_Jhin" -> "jhin" [] a = "TFT15_Gnar" -> "gnar"
          [] a = "TFT15_Galio" -> "galio"
          [] a = "TFT15_ZyraGraspingPlant" -> "zyragraspingplant"
          [] a = "TFT15_Voidling" -> "voidling"
          [] a = "TFT_Item_GuinsoosRageblade" -> "guinsoosrageblade"
          [] a = "TFT_Item_RecurveBow" -> "recurvebow"
          [] a = "TFT_Item_Spatula" -> "spatula"]

\* the catalog the index is built from; Galio and Zyra are not in it
IngestCatalog ==
    [patch |-> <<"1", "5", ".", "4">>,
     champions_index |-> <<[name |-> "Jhin", cost |-> 4], [name |-> "Gnar", cost |-> 3]>>,
     champions |-> <<"Jhin", "Gnar", "Sivir">>,
     items_components |-> <<"Recurve Bow", "Needlessly Large Rod">>,
     items_completed |->
        <<[name |-> "Guinsoo's Rageblade",
           components |-> <<"Recurve Bow", "Needlessly Large Rod">>],
          [name |-> "Rabadon's Deathcap",
           components |-> <<"Needlessly Large Rod", "Needlessly Large Rod">>]>>]

\* mapping.setdefault(k, v) and mapping[k] = v over a list of (k, v)
RECURSIVE SetDefaults(_, _)
SetDefaults(mapping, kvs) ==
    IF kvs = <<>> THEN mapping
    ELSE LET k == kvs[1][1] IN
         SetDefaults(IF k \in DOMAIN mapping THEN mapping
                     ELSE [x \in DOMAIN mapping \cup {k} |->
                              IF x = k THEN kvs[1][2] ELSE mapping[x]],
                     Tail(kvs))

RECURSIVE SetAll(_, _)
SetAll(mapping, kvs) ==
    IF kvs = <<>> THEN mapping
    ELSE LET k == kvs[1][1] IN
         SetAll([x \in DOMAIN mapping \cup {k} |-> IF x = k THEN kvs[1][2] ELSE mapping[x]],
                Tail(kvs))

_build_champion_map(catalog) ==
    SetDefaults(<<>>,
        [i \in DOMAIN catalog.champions_index |->
            <<normalise_key[catalog.champions_index[i].name], catalog.champions_index[i].name>>]
        \o [i \in DOMAIN catalog.champions |->
            <<normalise_key[catalog.champions[i]], catalog.champions[i]>>])

_build_cost_map(catalog) ==
    SetAll(<<>>, [i \in DOMAIN catalog.champions_index |->
                    <<normalise_key[catalog.champions_index[i].name],
                      catalog.champions_index[i].cost>>])

_build_component_map(catalog) ==
    SetAll(<<>>, [i \in DOMAIN catalog.items_components |->
                    <<normalise_key[catalog.items_components[i]], catalog.items_components[i]>>])

_build_completed_items_map(catalog) ==
    SetAll(<<>>, [i \in DOMAIN catalog.items_completed |->
                    <<normalise_key[catalog.items_completed[i].name],
                      <<catalog.items_completed[i].name, catalog.items_completed[i].components>>>>])

CatalogIndex(catalog) ==
    [_champion_map |-> _build_champion_map(catalog),
     _cost_map |-> _build_cost_map(catalog),
     _component_map |-> _build_component_map(catalog),
     _completed_map |-> _build_completed_items_map(catalog),
     _aliases |-> [k \in {"galio", "zyragraspingplant"} |->
                      IF k = "galio" THEN "Galio" ELSE "Zyra"]]

resolve_champion(index, api_name) ==
    LET key == api_name_to_key[api_name] IN
    IF key \in DOMAIN index._champion_map THEN Some(index._champion_map[key])
    ELSE IF key \in DOMAIN index._aliases THEN Some(index._aliases[key])
    ELSE None

cost_of(index, name) ==
    LET key == normalise_key[name] IN
    IF key \in DOMAIN index._cost_map THEN Some(index._cost_map[key]) ELSE None

resolve_item(index, api_name) ==
    LET key == api_name_to_key[api_name] IN
    IF key \in DOMAIN index._completed_map THEN Some(index._completed_map[key][1])
    ELSE IF key \in DOMAIN index._component_map THEN Some(index._component_map[key])
    ELSE None

components_for(index, item_name) ==
    LET key == normalise_key[item_name] IN
    IF key \in DOMAIN index._completed_map THEN index._completed_map[key][2]
    ELSE IF key \in DOMAIN index._component_map THEN <<index._component_map[key]>>
    ELSE <<>>

\* guide.slug.replace("/", "_")
replace_slash(slug) == [i \in DOMAIN slug |-> IF slug[i] = "/" THEN "_" ELSE slug[i]]

\* [resolve_champion(e.apiName) for e in entries], unresolved ones dropped
RECURSIVE ResolvedNames(_, _)
ResolvedNames(index, entries) ==
    IF entries = <<>> THEN <<>>
    ELSE LET resolved == resolve_champion(index, Get(entries[1], "apiName", ""))
         IN (IF resolved # None THEN <<ValueOf(resolved)>> ELSE <<>>)
            \o ResolvedNames(index, Tail(entries))

OrElse(opt, default) == IF opt # None /\ ValueOf(opt) # 0 THEN ValueOf(opt) ELSE default

\* mid comp: unique resolved late champions that are in the early comp,
\* cost at most 3, or are wanted at three stars
RECURSIVE MidLoop(_, _, _, _, _)
MidLoop(index, entries, early_set, mid_names, seen_mid) ==
    IF entries = <<>> THEN mid_names
    ELSE LET resolved == resolve_champion(index, Get(entries[1], "apiName", ""))
             rest == Tail(entries)
         IN IF resolved = None THEN MidLoop(index, rest, early_set, mid_names, seen_mid)
            ELSE LET key == normalise_key[ValueOf(resolved)]
                     cost == OrElse(cost_of(index, ValueOf(resolved)), 0)
                     stars == Get(entries[1], "stars", 1)
                 IN IF key \in seen_mid
                    THEN MidLoop(index, rest, early_set, mid_names, seen_mid)
                    ELSE IF key \in early_set \/ cost <= 3 \/ stars >= 3
                    THEN MidLoop(index, rest, early_set, Append(mid_names, ValueOf(resolved)),
                                 seen_mid \cup {key})
                    ELSE MidLoop(index, rest, early_set, mid_names, seen_mid)

CoreDict(name, star_goal, required) ==
    [name |-> name, star_goal |-> star_goal, required |-> required]

RECURSIVE CoreLoop(_, _, _)
CoreLoop(index, entries, main_name) ==
    IF entries = <<>> THEN <<>>
    ELSE LET resolved == resolve_champion(index, Get(entries[1], "apiName", ""))
             stars == Get(entries[1], "stars", 1)
         IN (IF resolved # None /\ stars >= 3 /\ (main_name = None \/ resolved # main_name)
             THEN <<CoreDict(ValueOf(resolved), stars, FALSE)>> ELSE <<>>)
            \o CoreLoop(index, Tail(entries), main_name)

GuideCoreUnits(index, raw) ==
    LET main == Get(raw, "mainChampion", <<>>)
        main_name == resolve_champion(index, Get(main, "apiName", ""))
        head == IF main_name = None THEN <<>>
                ELSE LET cost == OrElse(cost_of(index, ValueOf(main_name)), 1)
                     IN <<CoreDict(ValueOf(main_name), IF cost <= 3 THEN 3 ELSE 2, TRUE)>>
    IN head \o CoreLoop(index, Get(raw, "finalComp", <<>>), main_name)

RECURSIVE ResolvedItems(_, _)
ResolvedItems(index, apis) ==
    IF apis = <<>> THEN <<>>
    ELSE LET item == resolve_item(index, apis[1])
         IN (IF item # None THEN <<ValueOf(item)>> ELSE <<>>) \o ResolvedItems(index, Tail(apis))

RECURSIVE BisFromGuide(_, _, _)
BisFromGuide(index, entries, bis) ==
    IF entries = <<>> THEN bis
    ELSE LET resolved == resolve_champion(index, Get(entries[1], "apiName", ""))
             filtered == ResolvedItems(index, Get(entries[1], "items", <<>>))
         IN BisFromGuide(index, Tail(entries),
                         IF resolved # None /\ filtered # <<>>
                         THEN DictSet(bis, ValueOf(resolved), filtered) ELSE bis)

\* add_components_from_item for each item name in turn
RECURSIVE AddComponents(_, _, _)
AddComponents(index, components, priority) ==
    IF components = <<>> THEN priority
    ELSE AddComponents(index, Tail(components),
                       IF \E i \in DOMAIN priority :
                             normalise_key[priority[i]] = normalise_key[components[1]]
                       THEN priority ELSE Append(priority, components[1]))

RECURSIVE AddItems(_, _, _)
AddItems(index, items, priority) ==
    IF items = <<>> THEN priority
    ELSE AddItems(index, Tail(items), AddComponents(index, components_for(index, items[1]), priority))

RECURSIVE Flatten(_)
Flatten(bis) == IF bis = <<>> THEN <<>> ELSE bis[1].desired \o Flatten(Tail(bis))

GuidePriority(index, raw, bis) ==
    LET carousel == Get(raw, "carousel", <<>>)
        apis == [i \in DOMAIN carousel |-> Get(carousel[i], "apiName", "")]
    IN AddItems(index, Flatten(bis), AddItems(index, ResolvedItems(index, apis), <<>>))

\* str.upper, character by character, on the letters that occur
UpperChar(c) ==
    CASE c = "s" -> "S" [] c = "t" -> "T" [] c = "a" -> "A" [] c = "g" -> "G" [] c = "e" -> "E"
      [] c = "b" -> "B" [] c = "c" -> "C" [] c = "d" -> "D" [] c = "x" -> "X"
      [] OTHER -> c

\* re.search(r"STAGE\s*(\d)", label): the digit of the first match
StageDigitAt(label, i) ==
    IF i + 4 > Len(label) \/ SubSeq(label, i, i + 4) # <<"S", "T", "A", "G", "E">> THEN None
    ELSE LET after == lstrip(SubSeq(label, i + 5, Len(label)))
         IN IF after # <<>> /\ after[1] \in DOMAIN DigitVal THEN Some(after[1]) ELSE None

StageSearch(label) ==
    LET hits == {i \in DOMAIN label : StageDigitAt(label, i) # None}
    IN IF hits = {} THEN None
       ELSE StageDigitAt(label, CHOOSE i \in hits : \A j \in hits : i <= j)

TipNote(tip) ==
    LET raw_label == strip(Get(tip, "stage", <<>>))
        stage_label == [i \in DOMAIN raw_label |-> UpperChar(raw_label[i])]
        m == IF stage_label # <<>> THEN StageSearch(stage_label) ELSE None
    IN [severity |-> "info", text |-> strip(Get(tip, "tip", <<>>)),
        triggers |-> IF m = None THEN <<>>
                     ELSE [k \in {"stage_min"} |-> <<ValueOf(m), "-", "1">>]]

RECURSIVE TipNotes(_)
TipNotes(tips) ==
    IF tips = <<>> THEN <<>>
    ELSE (IF strip(Get(tips[1], "tip", <<>>)) = <<>> THEN <<>> ELSE <<TipNote(tips[1])>>)
         \o TipNotes(Tail(tips))

GuideNotes(raw) ==
    LET aug_tip == strip(Get(raw, "augmentsTip", <<>>))
    IN TipNotes(Get(raw, "tips", <<>>))
       \o (IF aug_tip # <<>> THEN <<[severity |-> "info", text |-> aug_tip, triggers |-> <<>>]>>
           ELSE <<>>)

\* a build is kept although its late comp resolved to nothing
build_from_guide_unanchored(guide, index) ==
    LET raw == guide.raw
        late_comp_raw == Get(raw, "finalComp", <<>>)
        early_comp == ResolvedNames(index, Get(raw, "earlyComp", <<>>))
        late_comp == ResolvedNames(index, late_comp_raw)
        bis == BisFromGuide(index, late_comp_raw, <<>>)
    IN Some([id |-> replace_slash(guide.slug), name |-> guide.title, tier |-> guide.tier,
             tier_rank |-> 0, patch |-> <<>>,
             core_units |-> GuideCoreUnits(index, raw),
             early_comp |-> early_comp,
             mid_comp |-> MidLoop(index, late_comp_raw,
                                  {normalise_key[early_comp[i]] : i \in DOMAIN early_comp},
                                  <<>>, {}),
             late_comp |-> late_comp,
             item_priority_components |-> GuidePriority(index, raw, bis),
             bis_items |-> bis,
             links |-> <<[label |-> "TFT Academy Guide", url |-> guide.slug]>>,
             notes |-> GuideNotes(raw)])

\* None when no late-comp champion resolves; links carry the slug the URL
\* is built from
build_from_guide(guide, index) ==
    LET raw == guide.raw
        late_comp_raw == Get(raw, "finalComp", <<>>)
        early_comp == ResolvedNames(index, Get(raw, "earlyComp", <<>>))
        late_comp == ResolvedNames(index, late_comp_raw)
        bis == BisFromGuide(index, late_comp_raw, <<>>)
    IN IF late_comp = <<>> THEN None
       ELSE Some([id |-> replace_slash(guide.slug), name |-> guide.title, tier |-> guide.tier,
                  tier_rank |-> 0, patch |-> <<>>,
                  core_units |-> GuideCoreUnits(index, raw),
                  early_comp |-> early_comp,
                  mid_comp |-> MidLoop(index, late_comp_raw,
                                       {normalise_key[early_comp[i]] : i \in DOMAIN early_comp},
                                       <<>>, {}),
                  late_comp |-> late_comp,
                  item_priority_components |-> GuidePriority(index, raw, bis),
                  bis_items |-> bis,
                  links |-> <<[label |-> "TFT Academy Guide", url |-> guide.slug]>>,
                  notes |-> GuideNotes(raw)])

\* t in s for two str values: t occurs in s as a substring
IsSubstring(t, s) == \E i \in 0..(Len(s) - Len(t)) : SubSeq(s, i + 1, i + Len(t)) = t

\* s.find(t): the 0-based index of the first occurrence
find(s, t) ==
    CHOOSE i \in 0..(Len(s) - Len(t)) :
        /\ SubSeq(s, i + 1, i + Len(t)) = t
        /\ \A j \in 0..(i - 1) : SubSeq(s, j + 1, j + Len(t)) # t

SABCDX == <<"S", "A", "B", "C", "D", "X">>

GenTierPos(tier) == IF IsSubstring(tier, SABCDX) THEN find(SABCDX, tier) ELSE 99

\* the sort key of line 304
GenKey(b) == <<GenTierPos(b.tier), b.tier_rank, lower(b.name)>>

\* builds are objects: heap maps a reference to the object's fields, and
\* the lists builds, selected and tiers hold references
GenStart(guides, index, patch) ==
    [pc |-> "guides", op |-> "generate", guides |-> guides, index |-> index, patch |-> patch,
     gi |-> 1, heap |-> <<>>, builds |-> <<>>, selected |-> <<>>]

\* one iteration of "for guide in guides"
GenGuideStep(st) ==
    LET guide == st.guides[st.gi]
        build == build_from_guide(guide, st.index)
        ref == Len(st.heap) + 1
    IN IF ~guide.is_public \/ guide.slug = <<>> \/ build = None
       THEN [st EXCEPT !.gi = @ + 1]
       ELSE [st EXCEPT !.gi = @ + 1,
                       !.heap = Append(@, [ValueOf(build) EXCEPT !.patch = st.patch]),
                       !.builds = Append(@, ref),
                       !.selected = Append(@, [guide |-> st.gi, build |-> ref])]

\* tiers[build.tier].append((guide.display_index, build)), tiers kept in
\* insertion order
RECURSIVE GroupByTier(_, _, _, _)
GroupByTier(selected, guides, heap, tiers) ==
    IF selected = <<>> THEN tiers
    ELSE LET tier == heap[selected[1].build].tier
             item == <<guides[selected[1].guide].display_index, selected[1].build>>
             next == IF \E i \in DOMAIN tiers : tiers[i].tier = tier
                     THEN [i \in DOMAIN tiers |->
                              IF tiers[i].tier = tier
                              THEN [tiers[i] EXCEPT !.entries = Append(@, item)] ELSE tiers[i]]
                     ELSE Append(tiers, [tier |-> tier, entries |-> <<item>>])
         IN GroupByTier(Tail(selected), guides, heap, next)

\* sorted(entries, key=lambda item: item[0]): stable
RECURSIVE InsertByIndex(_, _)
InsertByIndex(sorted_xs, x) ==
    IF sorted_xs = <<>> THEN <<x>>
    ELSE IF x[1] < sorted_xs[1][1] THEN <<x>> \o sorted_xs
    ELSE <<sorted_xs[1]>> \o InsertByIndex(Tail(sorted_xs), x)

RECURSIVE SortedByIndex(_)
SortedByIndex(xs) ==
    IF xs = <<>> THEN <<>>
    ELSE InsertByIndex(SortedByIndex(SubSeq(xs, 1, Len(xs) - 1)), xs[Len(xs)])

\* ranks in the order the entries were appended, the display index unused
RankTierUnsorted(heap, entries) ==
    [r \in DOMAIN heap |->
        IF \E k \in DOMAIN entries : entries[k][2] = r
        THEN [heap[r] EXCEPT !.tier_rank = CHOOSE k \in DOMAIN entries : entries[k][2] = r]
        ELSE heap[r]]

\* build.tier_rank = rank for rank, (_, build) in enumerate(sorted(...), start=1)
RankTier(heap, entries) ==
    LET ordered == SortedByIndex(entries) IN
    [r \in DOMAIN heap |->
        IF \E k \in DOMAIN ordered : ordered[k][2] = r
        THEN [heap[r] EXCEPT !.tier_rank = CHOOSE k \in DOMAIN ordered : ordered[k][2] = r]
        ELSE heap[r]]

RECURSIVE RankTiers(_, _)
RankTiers(heap, tiers) ==
    IF tiers = <<>> THEN heap ELSE RankTiers(RankTier(heap, tiers[1].entries), Tail(tiers))

GenRankStep(st) ==
    [st EXCEPT !.pc = "sort",
               !.heap = RankTiers(st.heap, GroupByTier(st.selected, st.guides, st.heap, <<>>))]

\* builds.sort(key=...): stable, on the list of references
RECURSIVE InsertRef(_, _, _)
InsertRef(sorted_refs, r, heap) ==
    IF sorted_refs = <<>> THEN <<r>>
    ELSE IF KeyLt(GenKey(heap[r]), GenKey(heap[sorted_refs[1]])) THEN <<r>> \o sorted_refs
    ELSE <<sorted_refs[1]>> \o InsertRef(Tail(sorted_refs), r, heap)

RECURSIVE SortRefs(_, _)
SortRefs(refs, heap) ==
    IF refs = <<>> THEN <<>>
    ELSE InsertRef(SortRefs(SubSeq(refs, 1, Len(refs) - 1), heap), refs[Len(refs)], heap)

GenSortStep(st) ==
    LET sorted_refs == SortRefs(st.builds, st.heap) IN
    [st EXCEPT !.pc = "done", !.builds = sorted_refs]

\* the returned list of builds
GenResult(st) == [i \in DOMAIN st.builds |-> st.heap[st.builds[i]]]

RECURSIVE GenRun(_)
GenRun(st) ==
    IF st.pc = "guides"
    THEN IF st.gi <= Len(st.guides) THEN GenRun(GenGuideStep(st)) ELSE GenRun(GenRankStep(st))
    ELSE IF st.pc = "sort" THEN GenRun(GenSortStep(st))
    ELSE st

generate_builds(guides, index, patch) == GenResult(GenRun(GenStart(guides, index, patch)))

\* Families of guides
MaxGuides == 3

Api(name) == [apiName |-> name]

RawJhin ==
    [finalComp |-> <<[apiName |-> "TFT15_Jhin", stars |-> 2,
                      items |-> <<"TFT_Item_GuinsoosRageblade", "TFT_Item_Spatula">>],
                     Api("TFT15_Voidling")>>,
     earlyComp |-> <<Api("TFT15_Gnar")>>,
     mainChampion |-> Api("TFT15_Jhin"),
     carousel |-> <<Api("TFT_Item_RecurveBow")>>,
     tips |-> <<[stage |-> <<" ", "s", "t", "a", "g", "e", " ", "3">>, tip |-> <<"a">>]>>,
     augmentsTip |-> <<"b">>]

RawGnar ==
    [finalComp |-> <<Api("TFT15_Gnar"), Api("TFT15_Jhin"), Api("TFT15_Gnar")>>,
     mainChampion |-> Api("TFT15_Voidling")]

RawGalio ==
    [finalComp |-> <<[apiName |-> "TFT15_Galio", stars |-> 3],
                     [apiName |-> "TFT15_ZyraGraspingPlant", stars |-> 4]>>,
     tips |-> <<[stage |-> <<"S", "T", "A", "G", "E">>, tip |-> <<"a">>], [tip |-> <<" ">>]>>]

RawVoidling == [finalComp |-> <<Api("TFT15_Voidling")>>, earlyComp |-> <<Api("TFT15_Gnar")>>]

RawEmpty == [earlyComp |-> <<Api("TFT15_Jhin")>>]

Guide(tier, display_index, slug, title, is_public, raw) ==
    [raw |-> raw, tier |-> tier, display_index |-> display_index, slug |-> slug,
     title |-> title, is_public |-> is_public]

GuideSamples ==
    {Guide(<<"S">>, 0, <<"a">>, <<"a">>, TRUE, RawJhin),
     Guide(<<"S">>, 0, <<"b">>, <<"B">>, TRUE, RawGnar),
     Guide(<<"S">>, 1, <<"a", "/", "b">>, <<"b">>, TRUE, RawGalio),
     Guide(<<"A">>, 1, <<"a", "b">>, <<"A", "b">>, TRUE, RawGnar),
     Guide(<<"X">>, 0, <<"b", "a">>, <<"a">>, TRUE, RawJhin),
     Guide(<<"A", "B">>, 0, <<"b", "b">>, <<"b">>, TRUE, RawGnar),
     Guide(<<"D">>, 0, <<"a", "a">>, <<"B">>, TRUE, RawJhin),
     Guide(<<"E">>, 0, <<"a", "_", "b">>, <<"a">>, TRUE, RawGalio),
     Guide(<<"S">>, 0, <<"b", "/", "a">>, <<"a">>, FALSE, RawJhin),
     Guide(<<"S">>, 0, <<>>, <<"b">>, TRUE, RawJhin),
     Guide(<<"A">>, 0, <<"b", "a", "b">>, <<"a">>, TRUE, RawVoidling),
     Guide(<<"S">>, 1, <<"a", "b", "a">>, <<"A", "b">>, TRUE, RawEmpty)}

GenGuide ==
    /\ ing.op = "generate" /\ ing.pc = "guides" /\ ing.gi <= Len(ing.guides)
    /\ ing' = GenGuideStep(ing)
    /\ UNCHANGED <<asg, crf, sc, nt, nm, mdl, stg, an, ld, ui>>

GenRank ==
    /\ ing.op = "generate" /\ ing.pc = "guides" /\ ing.gi > Len(ing.guides)
    /\ ing' = GenRankStep(ing)
    /\ UNCHANGED <<asg, crf, sc, nt, nm, mdl, stg, an, ld, ui>>

GenSort ==
    /\ ing.op = "generate" /\ ing.pc = "sort"
    /\ ing' = GenSortStep(ing)
    /\ UNCHANGED <<asg, crf, sc, nt, nm, mdl, stg, an, ld, ui>>

InitGenerate ==
    /\ \E guides \in SeqsUpTo(GuideSamples, MaxGuides) :
          ing = GenStart(guides, CatalogIndex(IngestCatalog), <<"1", "5", ".", "5">>)
    /\ asg = Idle /\ crf = Idle /\ sc = Idle /\ nt = Idle /\ nm = Idle
    /\ mdl = Idle /\ stg = Idle /\ an = Idle /\ ld = Idle
    /\ ui = Idle

NextGenerate == GenGuide \/ GenRank \/ GenSort

SpecGenerate == InitGenerate /\ [][NextGenerate]_vars

\* ------------------------------------------------------------------------
\* scripts/update_builds.py: fetch_guides, from the parsed payload entries
\* on.  An entry's data is None when it is missing or not a dict, else
\* Some(dict); a dict is a function on the keys it has.
\* ------------------------------------------------------------------------
GUIDES_KEY == "guides"

FetchStart(entries) ==
    [pc |-> "entries", op |-> "fetch", entries |-> entries, ei |-> 1, patch |-> <<>>,
     guides_raw |-> <<>>]

\* one iteration of "for entry in entries"; break leaves the loop
FetchEntryStep(st) ==
    LET data == st.entries[st.ei].data IN
    IF data = None THEN [st EXCEPT !.ei = @ + 1]
    ELSE LET d == ValueOf(data)
             patch == IF "patch" \in DOMAIN d /\ st.patch = <<>> THEN d.patch ELSE st.patch
         IN IF GUIDES_KEY \in DOMAIN d
            THEN [st EXCEPT !.patch = patch, !.guides_raw = d[GUIDES_KEY], !.pc = "convert"]
            ELSE [st EXCEPT !.patch = patch, !.ei = @ + 1]

UpperStr(t) == [i \in DOMAIN t |-> UpperChar(t[i])]

\* the GuideEntry of one raw guide
GuideEntryOf(raw) ==
    LET slug == strip(Get(raw, "compSlug", <<>>))
        tier == UpperStr(strip(Get(raw, "tier", <<>>)))
        title == strip(Get(raw, "title", slug))
    IN Guide(IF tier # <<>> THEN tier ELSE <<"B">>, Get(raw, "displayIndex", 0), slug,
             IF title # <<>> THEN title ELSE slug, Get(raw, "isPublic", TRUE), raw)

FetchConvertStep(st) ==
    IF st.guides_raw = <<>>
    THEN [pc |-> "raised", op |-> "fetch", entries |-> st.entries,
          error |-> "No guides payload found in TFTAcademy response"]
    ELSE [pc |-> "returned", op |-> "fetch", entries |-> st.entries,
          guides |-> [i \in DOMAIN st.guides_raw |-> GuideEntryOf(st.guides_raw[i])],
          patch |-> st.patch]

\* Families of payload entries
MaxEntries == 3

PayloadGuideA ==
    [compSlug |-> <<" ", "a">>, tier |-> <<"s", " ">>, displayIndex |-> 2, title |-> <<" ">>,
     isPublic |-> FALSE, finalComp |-> <<Api("TFT15_Jhin")>>]

PayloadGuideB == [compSlug |-> <<"b">>, finalComp |-> <<Api("TFT15_Gnar")>>]

PayloadGuideC == [tier |-> <<" ">>, title |-> <<"A", "b">>]

PayloadDicts ==
    {<<>>}
    \cup {[k \in {"patch"} |-> p] : p \in {<<>>, <<"1", "5", ".", "4">>, <<"1", "5", ".", "5">>}}
    \cup {[k \in {GUIDES_KEY} |-> g] :
            g \in {<<>>, <<PayloadGuideA>>, <<PayloadGuideB, PayloadGuideC>>}}
    \cup {[patch |-> p, guides |-> g] :
            p \in {<<>>, <<"1", "5", ".", "4">>, <<"1", "5", ".", "5">>},
            g \in {<<>>, <<PayloadGuideA>>, <<PayloadGuideB, PayloadGuideC>>}}

PayloadEntries == {[data |-> None]} \cup {[data |-> Some(d)] : d \in PayloadDicts}

FetchEntry ==
    /\ ing.op = "fetch" /\ ing.pc = "entries" /\ ing.ei <= Len(ing.entries)
    /\ ing' = FetchEntryStep(ing)
    /\ UNCHANGED <<asg, crf, sc, nt, nm, mdl, stg, an, ld, ui>>

FetchConvert ==
    /\ ing.op = "fetch"
    /\ ing.pc = "convert" \/ (ing.pc = "entries" /\ ing.ei > Len(ing.entries))
    /\ ing' = FetchConvertStep(ing)
    /\ UNCHANGED <<asg, crf, sc, nt, nm, mdl, stg, an, ld, ui>>

InitFetch ==
    /\ \E entries \in SeqsUpTo(PayloadEntries, MaxEntries) : ing = FetchStart(entries)
    /\ asg = Idle /\ crf = Idle /\ sc = Idle /\ nt = Idle /\ nm = Idle
    /\ mdl = Idle /\ stg = Idle /\ an = Idle /\ ld = Idle
    /\ ui = Idle

NextFetch == FetchEntry \/ FetchConvert

SpecFetch == InitFetch /\ [][NextFetch]_vars

\* ------------------------------------------------------------------------
\* core/models.py: the checks that make Build(**data) raise for a generated
\* build; strings are sequences of characters here
\* ------------------------------------------------------------------------
TIER_ALLOWED == {<<"S">>, <<"A">>, <<"B">>, <<"C">>, <<"X">>}

\* Build._v_tier: v.strip().upper() must be an allowed tier
_v_tier_raises(v) == UpperStr(strip(v)) \notin TIER_ALLOWED

\* CoreUnit.star_goal: Field(default=2, ge=1, le=3)
star_goal_raises(cu) == ~(cu.star_goal >= 1 /\ cu.star_goal <= 3)

\* NoteTriggers._v_stage: parse_stage(v) when stage_min is given
_v_stage_raises(triggers) ==
    "stage_min" \in DOMAIN triggers /\ parse_stage_raises(triggers.stage_min)

\* Build(**data) raises a validation error
BuildRaises(b) ==
    \/ strip(b.id) = <<>>
    \/ strip(b.name) = <<>>
    \/ _v_tier_raises(b.tier)
    \/ b.tier_rank < 1
    \/ \E i \in DOMAIN b.core_units : star_goal_raises(b.core_units[i])
    \/ \E i \in DOMAIN b.notes :
          strip(b.notes[i].text) = <<>> \/ _v_stage_raises(b.notes[i].triggers)

\* ------------------------------------------------------------------------
\* scripts/update_builds.py: main and write_builds, from the fetched guides
\* on.  The output directory is None while it does not exist, else
\* Some(files); files maps a file name to the file's content.  A content is
\* the text lines before the YAML document and the dumped document.
\* ------------------------------------------------------------------------
HEADER ==
    <<"# Auto-generated by scripts/update_builds.py",
      "# Source: https://tftacademy.com/tierlist/comps">>

YAML_SUFFIX == <<".", "y", "a", "m", "l">>

\* output_dir / f"{build.id}.yaml"
PathOf(id) == id \o YAML_SUFFIX

\* GeneratedBuild.to_dict: empty bis_items, links and notes are left out
to_dict(b) ==
    LET optional == {k \in {"bis_items", "links", "notes"} : b[k] = <<>>}
    IN [k \in (DOMAIN b) \ optional |-> b[k]]

\* header + "\n" + yaml_payload
FileText(b) == [text |-> HEADER \o <<"">>, payload |-> Some(to_dict(b))]

\* output_dir.glob("*.yaml")
Glob(files) ==
    {n \in DOMAIN files : Len(n) >= 5 /\ SubSeq(n, Len(n) - 4, Len(n)) = YAML_SUFFIX}

Unlink(files, name) == [n \in (DOMAIN files) \ {name} |-> files[n]]

WriteText(files, name, content) ==
    [n \in (DOMAIN files) \cup {name} |-> IF n = name THEN content ELSE files[n]]

MainStart(dry_run, keep_existing, guides, patch, dir) ==
    [pc |-> "generate", op |-> "main", dry_run |-> dry_run, keep_existing |-> keep_existing,
     guides |-> guides, patch |-> patch, before |-> dir, dir |-> dir,
     builds |-> <<>>, pending |-> {}, bi |-> 1]

\* builds = generate_builds(log, guides, catalog_index, patch or catalog.patch)
MainGenerateStep(st, catalog) ==
    [st EXCEPT !.builds = generate_builds(st.guides, CatalogIndex(catalog),
                                          IF st.patch # <<>> THEN st.patch ELSE catalog.patch),
               !.pc = IF st.dry_run THEN "done" ELSE "mkdir"]

\* existing files are globbed for deletion whatever keep_existing says
WriteMkdirStepAlwaysGlob(st) ==
    LET files == IF st.dir = None THEN <<>> ELSE ValueOf(st.dir)
    IN [st EXCEPT !.dir = Some(files), !.pending = Glob(files), !.pc = "unlink"]

\* mkdir(parents=True, exist_ok=True), then the glob when not keep_existing
WriteMkdirStep(st) ==
    LET files == IF st.dir = None THEN <<>> ELSE ValueOf(st.dir)
    IN [st EXCEPT !.dir = Some(files),
                  !.pending = IF st.keep_existing THEN {} ELSE Glob(files),
                  !.pc = "unlink"]

\* path.unlink() for one globbed path
WriteUnlinkStep(st, name) ==
    [st EXCEPT !.dir = Some(Unlink(ValueOf(@), name)), !.pending = @ \ {name}]

\* one iteration of "for build in builds"
WriteBuildStep(st) ==
    LET build == st.builds[st.bi]
    IN [st EXCEPT !.dir = Some(WriteText(ValueOf(@), PathOf(build.id), FileText(build))),
                  !.bi = @ + 1]

\* Families of runs
MaxMainGuides == 2

MainGuides ==
    {Guide(<<"S">>, 0, <<"a">>, <<"a">>, TRUE, RawJhin),
     Guide(<<"S">>, 1, <<"a", "/", "b">>, <<"b">>, TRUE, RawGalio),
     Guide(<<"A">>, 0, <<"a", "_", "b">>, <<"a">>, TRUE, RawGnar),
     Guide(<<"S">>, 0, <<"b", "/", "a">>, <<"a">>, FALSE, RawJhin),
     Guide(<<"S">>, 1, <<"a", "b", "a">>, <<"A", "b">>, TRUE, RawEmpty)}

ExistingNames ==
    {<<"a">> \o YAML_SUFFIX, <<"c">> \o YAML_SUFFIX, <<"a", ".", "y", "m", "l">>}

ExistingTexts ==
    {[text |-> HEADER \o <<"">>, payload |-> Some([id |-> <<"c">>])],
     [text |-> <<"# notes">>, payload |-> None]}

OutputDirs == {None} \cup {Some(files) : files \in Dicts(ExistingNames, ExistingTexts)}

MainGenerate ==
    /\ ing.op = "main" /\ ing.pc = "generate"
    /\ ing' = MainGenerateStep(ing, IngestCatalog)
    /\ UNCHANGED <<asg, crf, sc, nt, nm, mdl, stg, an, ld, ui>>

WriteMkdir ==
    /\ ing.op = "main" /\ ing.pc = "mkdir"
    /\ ing' = WriteMkdirStep(ing)
    /\ UNCHANGED <<asg, crf, sc, nt, nm, mdl, stg, an, ld, ui>>

WriteUnlink ==
    /\ ing.op = "main" /\ ing.pc = "unlink"
    /\ \E name \in ing.pending : ing' = WriteUnlinkStep(ing, name)
    /\ UNCHANGED <<asg, crf, sc, nt, nm, mdl, stg, an, ld, ui>>

WriteLoop ==
    /\ ing.op = "main" /\ ing.pc = "unlink" /\ ing.pending = {}
    /\ ing' = [ing EXCEPT !.pc = "write"]
    /\ UNCHANGED <<asg, crf, sc, nt, nm, mdl, stg, an, ld, ui>>

WriteBuild ==
    /\ ing.op = "main" /\ ing.pc = "write" /\ ing.bi <= Len(ing.builds)
    /\ ing' = WriteBuildStep(ing)
    /\ UNCHANGED <<asg, crf, sc, nt, nm, mdl, stg, an, ld, ui>>

WriteReturn ==
    /\ ing.op = "main" /\ ing.pc = "write" /\ ing.bi > Len(ing.builds)
    /\ ing' = [ing EXCEPT !.pc = "done"]
    /\ UNCHANGED <<asg, crf, sc, nt, nm, mdl, stg, an, ld, ui>>

InitMain ==
    /\ \E dry_run \in BOOLEAN, keep_existing \in BOOLEAN,
          guides \in SeqsUpTo(MainGuides, MaxMainGuides),
          patch \in {<<>>, <<"1", "5", ".", "5">>}, dir \in OutputDirs :
          ing = MainStart(dry_run, keep_existing, guides, patch, dir)
    /\ asg = Idle /\ crf = Idle /\ sc = Idle /\ nt = Idle /\ nm = Idle
    /\ mdl = Idle /\ stg = Idle /\ an = Idle /\ ld = Idle
    /\ ui = Idle

NextMain ==
    MainGenerate \/ WriteMkdir \/ WriteUnlink \/ WriteLoop \/ WriteBuild \/ WriteReturn

SpecMain == InitMain /\ [][NextMain]_vars

\* ------------------------------------------------------------------------
\* scripts/update_builds.py: extract_js_array.  idx and end are 0-based as
\* in the code; data is a sequence of characters.
\* ------------------------------------------------------------------------
isspace(ch) == ch \in {" ", "\t", "\n"}

ExtractStart(data) ==
    [pc |-> "skip", op |-> "extract", data |-> data, idx |-> 0, end |-> 0, level |-> 0]

\* while idx < len(data) and data[idx].isspace(): idx += 1
ExtractSkipStep(st) == [st EXCEPT !.idx = @ + 1]

\* if idx >= len(data) or data[idx] != "[": raise
ExtractCheckStep(st) ==
    IF st.idx >= Len(st.data) \/ st.data[st.idx + 1] # "["
    THEN [st EXCEPT !.pc = "raised"]
         @@ [error |-> "Expected '[' at start of JS array"]
    ELSE [st EXCEPT !.pc = "scan", !.end = st.idx, !.level = 0]

\* the scan returns at the first closing bracket
ExtractScanStepFirstClose(st) ==
    LET ch == st.data[st.end + 1] IN
    IF ch = "[" THEN [st EXCEPT !.level = @ + 1, !.end = @ + 1]
    ELSE IF ch = "]"
         THEN [st EXCEPT !.level = @ - 1, !.pc = "returned"]
              @@ [array |-> SubSeq(st.data, st.idx + 1, st.end + 1),
                  rest |-> SubSeq(st.data, st.end + 2, Len(st.data))]
         ELSE [st EXCEPT !.end = @ + 1]

\* one iteration of "for end in range(idx, len(data))"
ExtractScanStep(st) ==
    LET ch == st.data[st.end + 1] IN
    IF ch = "[" THEN [st EXCEPT !.level = @ + 1, !.end = @ + 1]
    ELSE IF ch = "]"
         THEN IF st.level - 1 = 0
              THEN [st EXCEPT !.level = @ - 1, !.pc = "returned"]
                   @@ [array |-> SubSeq(st.data, st.idx + 1, st.end + 1),
                       rest |-> SubSeq(st.data, st.end + 2, Len(st.data))]
              ELSE [st EXCEPT !.level = @ - 1, !.end = @ + 1]
         ELSE [st EXCEPT !.end = @ + 1]

\* the loop ran out of characters
ExtractUnbalancedStep(st) ==
    [st EXCEPT !.pc = "raised"] @@ [error |-> "Unbalanced brackets while extracting JS array"]

RECURSIVE ExtractRun(_)
ExtractRun(st) ==
    IF st.pc = "skip"
    THEN IF st.idx < Len(st.data) /\ isspace(st.data[st.idx + 1])
         THEN ExtractRun(ExtractSkipStep(st)) ELSE ExtractRun(ExtractCheckStep(st))
    ELSE IF st.pc = "scan"
         THEN IF st.end < Len(st.data) THEN ExtractRun(ExtractScanStep(st))
              ELSE ExtractRun(ExtractUnbalancedStep(st))
         ELSE st

\* None when the call raises, else Some(<<array, rest>>)
extract_js_array(data) ==
    LET st == ExtractRun(ExtractStart(data))
    IN IF st.pc = "raised" THEN None ELSE Some(<<st.array, st.rest>>)

\* Families of page texts
MaxData == 6

DataChars == {" ", "[", "]", "a", "'"}

ExtractSkip ==
    /\ ing.op = "extract" /\ ing.pc = "skip"
    /\ ing.idx < Len(ing.data) /\ isspace(ing.data[ing.idx + 1])
    /\ ing' = ExtractSkipStep(ing)
    /\ UNCHANGED <<asg, crf, sc, nt, nm, mdl, stg, an, ld, ui>>

ExtractCheck ==
    /\ ing.op = "extract" /\ ing.pc = "skip"
    /\ ~(ing.idx < Len(ing.data) /\ isspace(ing.data[ing.idx + 1]))
    /\ ing' = ExtractCheckStep(ing)
    /\ UNCHANGED <<asg, crf, sc, nt, nm, mdl, stg, an, ld, ui>>

ExtractScan ==
    /\ ing.op = "extract" /\ ing.pc = "scan" /\ ing.end < Len(ing.data)
    /\ ing' = ExtractScanStep(ing)
    /\ UNCHANGED <<asg, crf, sc, nt, nm, mdl, stg, an, ld, ui>>

ExtractUnbalanced ==
    /\ ing.op = "extract" /\ ing.pc = "scan" /\ ing.end >= Len(ing.data)
    /\ ing' = ExtractUnbalancedStep(ing)
    /\ UNCHANGED <<asg, crf, sc, nt, nm, mdl, stg, an, ld, ui>>

InitExtract ==
    /\ \E data \in SeqsUpTo(DataChars, MaxData) : ing = ExtractStart(data)
    /\ asg = Idle /\ crf = Idle /\ sc = Idle /\ nt = Idle /\ nm = Idle
    /\ mdl = Idle /\ stg = Idle /\ an = Idle /\ ld = Idle
    /\ ui = Idle

NextExtract == ExtractSkip \/ ExtractCheck \/ ExtractScan \/ ExtractUnbalanced

SpecExtract == InitExtract /\ [][NextExtract]_vars

\* ------------------------------------------------------------------------
\* scripts/update_builds.py: main from its first line on.  catalog_file is
\* None when the catalog cannot be loaded; response is None when the GET
\* raises, else the status and the page.  A page is described by what the
\* run looks for in it: the marker, "data:" after it, the text behind
\* "data:" and what pyjson5 makes of the array (None when it raises).
\* ------------------------------------------------------------------------
Raise(st, error) == [st EXCEPT !.pc = "raised"] @@ [error |-> error]

RunStart(dry_run, keep_existing, catalog_file, response, dir) ==
    [MainStart(dry_run, keep_existing, <<>>, <<>>, dir) EXCEPT !.pc = "catalog"]
    @@ [catalog_file |-> catalog_file, response |-> response]

\* catalog = load_catalog_from_yaml(...); catalog_index = CatalogIndex(catalog)
RunCatalogStep(st) ==
    IF st.catalog_file = None THEN Raise(st, "CatalogLoadError")
    ELSE [st EXCEPT !.pc = "request"]

\* the output directory is cleared before the page is requested
RunRequestStepClearsFirst(st) ==
    LET files == IF st.dir = None THEN <<>> ELSE ValueOf(st.dir)
        cleared == [st EXCEPT !.dir = Some([n \in (DOMAIN files) \ Glob(files) |-> files[n]])]
    IN IF st.response = None THEN Raise(cleared, "RequestException")
       ELSE IF ~ValueOf(st.response).status_ok THEN Raise(cleared, "HTTPError")
       ELSE [cleared EXCEPT !.pc = "locate"]

\* resp = sess.get(...); resp.raise_for_status()
RunRequestStep(st) ==
    IF st.response = None THEN Raise(st, "RequestException")
    ELSE IF ~ValueOf(st.response).status_ok THEN Raise(st, "HTTPError")
    ELSE [st EXCEPT !.pc = "locate"]

\* the marker, "data:" and the array text
RunLocateStep(st) ==
    LET page == ValueOf(st.response).page IN
    IF ~page.marker THEN Raise(st, "Could not locate Svelte payload in response")
    ELSE IF ~page.data THEN Raise(st, "Could not find data array after node_ids marker")
    ELSE LET extracted == extract_js_array(page.tail) IN
         IF extracted = None THEN Raise(st, "RuntimeError")
         ELSE [st EXCEPT !.pc = "parse"]

RECURSIVE FetchRun(_)
FetchRun(st) ==
    IF st.pc = "entries" /\ st.ei <= Len(st.entries) THEN FetchRun(FetchEntryStep(st))
    ELSE IF st.pc \in {"entries", "convert"} THEN FetchConvertStep(st)
    ELSE st

\* entries = pyjson5.loads(array_str) and the rest of fetch_guides
RunParseStep(st) ==
    LET page == ValueOf(st.response).page IN
    IF page.entries = None THEN Raise(st, "Json5Exception")
    ELSE LET f == FetchRun(FetchStart(ValueOf(page.entries))) IN
         IF f.pc = "raised" THEN Raise(st, f.error)
         ELSE [st EXCEPT !.pc = "generate", !.guides = f.guides, !.patch = f.patch]

\* Families of runs
Page(marker, data, tail, entries) ==
    [marker |-> marker, data |-> data, tail |-> tail, entries |-> entries]

GoodTail == <<" ", "[", "a", "]", "a">>

GoodEntries == <<[data |-> Some([patch |-> <<"1", "5", ".", "5">>, guides |-> <<PayloadGuideB>>])]>>

Pages ==
    {Page(FALSE, TRUE, GoodTail, Some(GoodEntries)),
     Page(TRUE, FALSE, GoodTail, Some(GoodEntries)),
     Page(TRUE, TRUE, <<"a", "[", "]">>, Some(GoodEntries)),
     Page(TRUE, TRUE, <<"[", "[", "]">>, Some(GoodEntries)),
     Page(TRUE, TRUE, GoodTail, None),
     Page(TRUE, TRUE, GoodTail, Some(<<[data |-> None]>>)),
     Page(TRUE, TRUE, GoodTail, Some(<<[data |-> Some([guides |-> <<>>])]>>)),
     Page(TRUE, TRUE, GoodTail, Some(GoodEntries)),
     Page(TRUE, TRUE, GoodTail, Some(<<[data |-> Some([guides |-> <<PayloadGuideA>>])]>>)),
     Page(TRUE, TRUE, <<"[", "]">>,
          Some(<<[data |-> Some([guides |-> <<PayloadGuideB, PayloadGuideC>>])]>>))}

Responses ==
    {None, Some([status_ok |-> FALSE, page |-> Page(TRUE, TRUE, GoodTail, Some(GoodEntries))])}
    \cup {Some([status_ok |-> TRUE, page |-> p]) : p \in Pages}

RunCatalog ==
    /\ ing.op = "main" /\ ing.pc = "catalog"
    /\ ing' = RunCatalogStep(ing)
    /\ UNCHANGED <<asg, crf, sc, nt, nm, mdl, stg, an, ld, ui>>

RunRequest ==
    /\ ing.op = "main" /\ ing.pc = "request"
    /\ ing' = RunRequestStep(ing)
    /\ UNCHANGED <<asg, crf, sc, nt, nm, mdl, stg, an, ld, ui>>

RunLocate ==
    /\ ing.op = "main" /\ ing.pc = "locate"
    /\ ing' = RunLocateStep(ing)
    /\ UNCHANGED <<asg, crf, sc, nt, nm, mdl, stg, an, ld, ui>>

RunParse ==
    /\ ing.op = "main" /\ ing.pc = "parse"
    /\ ing' = RunParseStep(ing)
    /\ UNCHANGED <<asg, crf, sc, nt, nm, mdl, stg, an, ld, ui>>

InitRun ==
    /\ \E dry_run \in BOOLEAN, keep_existing \in BOOLEAN,
          catalog_file \in {None, Some(IngestCatalog)}, response \in Responses,
          dir \in OutputDirs :
          ing = RunStart(dry_run, keep_existing, catalog_file, response, dir)
    /\ asg = Idle /\ crf = Idle /\ sc = Idle /\ nt = Idle /\ nm = Idle
    /\ mdl = Idle /\ stg = Idle /\ an = Idle /\ ld = Idle
    /\ ui = Idle

NextRun ==
    \/ RunCatalog \/ RunRequest \/ RunLocate \/ RunParse
    \/ MainGenerate \/ WriteMkdir \/ WriteUnlink \/ WriteLoop \/ WriteBuild \/ WriteReturn

SpecRun == InitRun /\ [][NextRun]_vars

\* ---------------------------------------------------------------------
\* The Streamlit page: ui/widgets.py and ui/app.py run().
\* A script run goes from the top of run() to its end; a click or a widget
\* change starts a run, st.rerun() abandons the current run and starts the
\* next one with no button pressed.
MaxOwned == 2

MaxUiBuilds == 6

TOP_N_DEFAULT == 5

UiComponents == {"Recurve Bow", "Needlessly Large Rod"}

UiChampions == {"Gnar", "Jhin"}

\* counter_map.get(name, 0)
CountOf(counter_map, name) == IF name \in DOMAIN counter_map THEN counter_map[name] ELSE 0

ensure_session_counter_map(current) == [k \in DOMAIN current |-> current[k]]

_inc_keeps_zero(counter_map, name, delta) ==
    LET new_val == CountOf(counter_map, name) + delta IN
    IF new_val < 0
    THEN [k \in DOMAIN counter_map \ {name} |-> counter_map[k]]
    ELSE [k \in DOMAIN counter_map \cup {name} |->
             IF k = name THEN new_val ELSE counter_map[k]]

_inc(counter_map, name, delta) ==
    LET new_val == CountOf(counter_map, name) + delta IN
    IF new_val <= 0
    THEN [k \in DOMAIN counter_map \ {name} |-> counter_map[k]]
    ELSE [k \in DOMAIN counter_map \cup {name} |->
             IF k = name THEN new_val ELSE counter_map[k]]

_inventory_from_inputs(selected_champions, component_counts, stage) ==
    MkInventory([name \in selected_champions |-> 1],
                [k \in {c \in DOMAIN component_counts : component_counts[c] > 0} |->
                    component_counts[k]],
                stage)

\* list.sort(key=total, reverse=True): stable, equal totals keep their order
InsertDescending(sorted, pair) ==
    LET before == {i \in 0..Len(sorted) :
                      \A j \in 1..i : RLe(pair.score.total, sorted[j].score.total)}
        at == CHOOSE i \in before : \A k \in before : k <= i
    IN SubSeq(sorted, 1, at) \o <<pair>> \o SubSeq(sorted, at + 1, Len(sorted))

RECURSIVE SortDescending(_)
SortDescending(pairs) ==
    IF pairs = <<>> THEN <<>>
    ELSE InsertDescending(SortDescending(SubSeq(pairs, 1, Len(pairs) - 1)),
                          pairs[Len(pairs)])

_score_all_builds_unsorted(builds, inventory, recipes) ==
    [i \in DOMAIN builds |->
        [score |-> score_build(builds[i], inventory, recipes, None), build |-> builds[i]]]

_score_all_builds(builds, inventory, recipes) ==
    SortDescending([i \in DOMAIN builds |->
        [score |-> score_build(builds[i], inventory, recipes, None), build |-> builds[i]]])

NoLocals ==
    [component_counts |-> <<>>, forced_id |-> None, units_map |-> <<>>, inv |-> None,
     scored |-> <<>>, chips |-> {}, offered |-> {}, cards |-> <<>>, top_n |-> 0]

\* The session before the first run: no "components" and no "units" key,
\* every widget at its default.
UiStart(has_index, builds) ==
    [pc |-> "grid", has_index |-> has_index, builds |-> builds,
     components |-> <<>>, units |-> <<>>,
     force_on |-> FALSE, forced |-> builds[1].id, top_n |-> None, selected |-> {},
     trigger |-> None, run |-> NoLocals]

Clicked(u, kind) == u.trigger # None /\ u.trigger[1].kind = kind

\* A click or a widget change: the script starts again from the top, the
\* clicked button returning True in this run only.
Begin(u, kind, name) ==
    [u EXCEPT !.pc = "grid", !.trigger = Some([kind |-> kind, name |-> name]),
              !.run = NoLocals]

\* st.rerun()
Rerun(u) == [u EXCEPT !.pc = "grid", !.trigger = None, !.run = NoLocals]

\* render_component_counter_grid
GridStep(u) ==
    LET counter_map == ensure_session_counter_map(u.components) IN
    IF Clicked(u, "inc")
    THEN Rerun([u EXCEPT !.components = _inc(counter_map, u.trigger[1].name, 1)])
    ELSE [u EXCEPT !.pc = "coerce", !.components = counter_map]

\* _render_components_selector after the grid
CoerceStep(u) ==
    LET kept == [k \in {c \in DOMAIN u.components : u.components[c] > 0} |->
                    u.components[k]]
    IN [u EXCEPT !.pc = "force", !.components = kept, !.run.component_counts = kept]

ForceStep(u) ==
    [u EXCEPT !.pc = "champions",
              !.run.forced_id = IF u.force_on THEN Some(u.forced) ELSE None]

\* _render_champions_selector: the grid when the catalog has a champions
\* index, the multiselect otherwise
ChampionsStep(u) ==
    IF u.has_index
    THEN LET state_units == u.units
             name == u.trigger[1].name
         IN IF Clicked(u, "add") /\ name \notin DOMAIN state_units
            THEN Rerun([u EXCEPT !.units =
                           [k \in DOMAIN state_units \cup {name} |-> 1]])
            ELSE [u EXCEPT !.pc = "score", !.units = state_units,
                           !.run.units_map = state_units]
    ELSE LET result == [name \in u.selected |-> 1]
         IN [u EXCEPT !.pc = "score", !.units = result, !.run.units_map = result]

ScoreStep(u) ==
    LET selected_champions == {name \in DOMAIN u.run.units_map : u.run.units_map[name] > 0}
        inventory == _inventory_from_inputs(selected_champions, u.run.component_counts,
                                            Str(<<"3", "-", "2">>))
    IN [u EXCEPT !.pc = "summary", !.run.inv = Some(inventory),
                 !.run.scored = _score_all_builds(u.builds, inventory, CatalogRecipes)]

\* _render_selection_summary: the champion chips
SummaryStep(u) ==
    LET names == DOMAIN u.run.units_map
        name == u.trigger[1].name
    IN IF Clicked(u, "remove") /\ name \in names
       THEN Rerun([u EXCEPT !.units = [k \in DOMAIN u.units \ {name} |-> u.units[k]]])
       ELSE [u EXCEPT !.pc = "owned", !.run.chips = names]

\* render_owned_counters
OwnedStep(u) ==
    LET counter_map == ensure_session_counter_map(u.components)
        name == u.trigger[1].name
    IN IF Clicked(u, "dec") /\ name \in DOMAIN counter_map
       THEN Rerun([u EXCEPT !.components = _inc(counter_map, name, -1)])
       ELSE [u EXCEPT !.pc = "forced", !.components = counter_map,
                      !.run.offered = DOMAIN counter_map]

Card(pair, forced) == [id |-> pair.build.id, total |-> pair.score.total, forced |-> forced]

ForcedStep(u) ==
    LET forced_pairs ==
            SelectSeq(u.run.scored,
                      LAMBDA p : u.run.forced_id # None /\ p.build.id = u.run.forced_id[1])
    IN [u EXCEPT !.pc = "slider",
                 !.run.cards = IF forced_pairs # <<>>
                               THEN <<Card(forced_pairs[1], TRUE)>> ELSE <<>>]

\* st.slider widens its bounds to hold the value
SliderMax(count) == Max(TOP_N_DEFAULT, Min(10, count))

SliderStep(u) ==
    [u EXCEPT !.pc = "cards",
              !.run.top_n = IF u.top_n = None THEN TOP_N_DEFAULT ELSE u.top_n[1]]

RankedPairs(u) ==
    SelectSeq(u.run.scored,
              LAMBDA p : ~(u.run.forced_id # None /\ p.build.id = u.run.forced_id[1]))

CardsStep(u) ==
    LET ranked == RankedPairs(u)
        shown == Min(u.run.top_n, Len(ranked))
    IN [u EXCEPT !.pc = "complete",
                 !.run.cards = @ \o [i \in 1..shown |-> Card(ranked[i], FALSE)]]

\* The builds of the page: distinct ids, two of them with equal totals.
UiBuild(i) ==
    LET shapes == <<[core_units |-> <<>>, early_comp |-> <<>>, mid_comp |-> <<>>,
                     late_comp |-> <<>>],
                    [core_units |-> <<Cu("Jhin", 2)>>, early_comp |-> <<"Gnar">>,
                     mid_comp |-> <<"Sivir">>, late_comp |-> <<"Jhin">>],
                    [core_units |-> <<Cu("Jhin", 2)>>, early_comp |-> <<"Gnar">>,
                     mid_comp |-> <<"Sivir">>, late_comp |-> <<"Jhin">>],
                    [core_units |-> <<Cu("Jhin", 3), Cu("Gnar", 1)>>,
                     early_comp |-> <<"Gnar", "Sivir">>,
                     mid_comp |-> <<"Gnar", "Sivir", "Jhin">>,
                     late_comp |-> <<"Sivir", "Jhin">>]>>
        priors == <<<<"C", 3>>, <<"A", 2>>, <<"A", 2>>, <<"S", 1>>>>
        items == <<[priority |-> <<>>, bis |-> <<>>],
                   [priority |-> <<"Recurve Bow", "Needlessly Large Rod", "Recurve Bow">>,
                    bis |-> WantsGuinsoo],
                   [priority |-> <<"Recurve Bow", "Needlessly Large Rod", "Recurve Bow">>,
                    bis |-> WantsGuinsoo],
                   [priority |-> <<"Needlessly Large Rod">>, bis |-> <<>>]>>
        k == ((i - 1) % Len(shapes)) + 1
    IN [MkBuild(priors[k][1], priors[k][2] + ((i - 1) \div Len(shapes)), shapes[k],
                items[k].priority, items[k].bis) EXCEPT !.id = <<"build", i>>]

UiBuildLists == {[i \in 1..n |-> UiBuild(i)] : n \in {1, 3, MaxUiBuilds}}

UiOthers == <<asg, crf, sc, nt, nm, mdl, stg, an, ld, ing>>

Grid == ui.pc = "grid" /\ ui' = GridStep(ui) /\ UNCHANGED UiOthers

Coerce == ui.pc = "coerce" /\ ui' = CoerceStep(ui) /\ UNCHANGED UiOthers

Force == ui.pc = "force" /\ ui' = ForceStep(ui) /\ UNCHANGED UiOthers

ChampionsSelector == ui.pc = "champions" /\ ui' = ChampionsStep(ui) /\ UNCHANGED UiOthers

ScoreAll == ui.pc = "score" /\ ui' = ScoreStep(ui) /\ UNCHANGED UiOthers

Summary == ui.pc = "summary" /\ ui' = SummaryStep(ui) /\ UNCHANGED UiOthers

OwnedCounters == ui.pc = "owned" /\ ui' = OwnedStep(ui) /\ UNCHANGED UiOthers

ForcedCard == ui.pc = "forced" /\ ui' = ForcedStep(ui) /\ UNCHANGED UiOthers

Slider == ui.pc = "slider" /\ ui' = SliderStep(ui) /\ UNCHANGED UiOthers

Cards == ui.pc = "cards" /\ ui' = CardsStep(ui) /\ UNCHANGED UiOthers

\* The user acts on the rendered page.
ClickInc ==
    /\ ui.pc = "complete"
    /\ \E name \in UiComponents :
          /\ CountOf(ui.components, name) < MaxOwned
          /\ ui' = Begin(ui, "inc", name)
    /\ UNCHANGED UiOthers

ClickDec ==
    /\ ui.pc = "complete"
    /\ \E name \in ui.run.offered : ui' = Begin(ui, "dec", name)
    /\ UNCHANGED UiOthers

ClickAdd ==
    /\ ui.pc = "complete" /\ ui.has_index
    /\ \E name \in UiChampions : ui' = Begin(ui, "add", name)
    /\ UNCHANGED UiOthers

ClickRemove ==
    /\ ui.pc = "complete"
    /\ \E name \in ui.run.chips : ui' = Begin(ui, "remove", name)
    /\ UNCHANGED UiOthers

SelectChampions ==
    /\ ui.pc = "complete" /\ ~ui.has_index
    /\ \E chosen \in SUBSET UiChampions :
          /\ chosen # ui.selected
          /\ ui' = Begin([ui EXCEPT !.selected = chosen], "select", "")
    /\ UNCHANGED UiOthers

ToggleForce ==
    /\ ui.pc = "complete"
    /\ ui' = Begin([ui EXCEPT !.force_on = ~@], "widget", "")
    /\ UNCHANGED UiOthers

SelectForced ==
    /\ ui.pc = "complete" /\ ui.force_on
    /\ \E i \in {1, Len(ui.builds)} :
          /\ ui.builds[i].id # ui.forced
          /\ ui' = Begin([ui EXCEPT !.forced = ui.builds[i].id], "widget", "")
    /\ UNCHANGED UiOthers

MoveSlider ==
    /\ ui.pc = "complete"
    /\ \E n \in {1, 2, SliderMax(Len(ui.builds))} :
          /\ Some(n) # ui.top_n
          /\ ui' = Begin([ui EXCEPT !.top_n = Some(n)], "widget", "")
    /\ UNCHANGED UiOthers

InitUi ==
    /\ \E has_index \in BOOLEAN, builds \in UiBuildLists : ui = UiStart(has_index, builds)
    /\ asg = Idle /\ crf = Idle /\ sc = Idle /\ nt = Idle /\ nm = Idle
    /\ mdl = Idle /\ stg = Idle /\ an = Idle /\ ld = Idle /\ ing = Idle

NextUi ==
    \/ Grid \/ Coerce \/ Force \/ ChampionsSelector \/ ScoreAll \/ Summary \/ OwnedCounters
    \/ ForcedCard \/ Slider \/ Cards
    \/ ClickInc \/ ClickDec \/ ClickAdd \/ ClickRemove
    \/ SelectChampions \/ ToggleForce \/ SelectForced \/ MoveSlider

SpecUi == InitUi /\ [][NextUi]_vars

\* ------------------------------------------------------------------------
\* Claims about the solver
\* ------------------------------------------------------------------------
\* ------------------------------------------------------------------------
Owned(have, c) == IF c \in DOMAIN have /\ have[c] > 0 THEN have[c] ELSE 0

MatchedAt(st, i) == \E m \in DOMAIN st.matches : st.matches[m] = <<i, st.priority[i + 1]>>

EarlierMatched(st, i) ==
    Cardinality({j \in 0..(i - 1) : st.priority[j + 1] = st.priority[i + 1] /\ MatchedAt(st, j)})

RECURSIVE Unmatched(_, _)
Unmatched(st, n) ==
    IF n = 0 THEN <<>>
    ELSE IF MatchedAt(st, n - 1) THEN Unmatched(st, n - 1)
         ELSE Append(Unmatched(st, n - 1), st.priority[n])

ExPriority == <<"Recurve Bow", "Needlessly Large Rod", "Recurve Bow">>
ExHave == [c \in {"Recurve Bow", "Negatron Cloak"} |-> 1]

\* C1: assign_components_by_priority is one left-to-right greedy pass:
\* every processed position i is a match (i, priority[i]) iff the owned
\* stock of priority[i] minus one unit per earlier matched position of the
\* same component is still >= 1, and otherwise priority[i] is in missing (in
\* order); for [Bow, Rod, Bow] against {Bow:1, Negatron:1} the match is at
\* index 0, the second Bow is missing, matched = 1 and total = 3.
C1_GreedyPass ==
    asg.pc \in {"loop", "done"} =>
        /\ \A i \in 0..(asg.idx - 1) :
              MatchedAt(asg, i) <=>
                  Owned(asg.have, asg.priority[i + 1]) - EarlierMatched(asg, i) >= 1
        /\ \A m \in DOMAIN asg.matches :
              /\ asg.matches[m][1] \in 0..(asg.idx - 1)
              /\ asg.matches[m][2] = asg.priority[asg.matches[m][1] + 1]
        /\ asg.missing = Unmatched(asg, asg.idx)
        /\ Len(asg.matches) + Len(asg.missing) = asg.idx
        /\ (asg.pc = "done" /\ asg.priority = ExPriority /\ asg.have = ExHave) =>
              /\ asg.result.matches = << <<0, "Recurve Bow">> >>
              /\ asg.result.missing = <<"Needlessly Large Rod", "Recurve Bow">>
              /\ asg.result.matched = 1
              /\ asg.result.total = 3

C1_Witness ==
    /\ asg.pc = "done"
    /\ asg.priority = ExPriority
    /\ asg.have = ExHave
    /\ asg.result.matched = 1

\* Units of component c held by a dict (0 when the key is absent).
Units(d, c) == Get(d, c, 0)

\* Units of c used by the recipes of the items in a crafted list.
RECURSIVE UsedBy(_, _, _)
UsedBy(crafted, recipes, c) ==
    IF crafted = <<>> THEN 0
    ELSE CountIn(recipes[crafted[1]], c) + UsedBy(Tail(crafted), recipes, c)

CurItem == crf.bis_by_carry[crf.ci].desired[crf.ii]

AtItem == crf.pc = "item" /\ crf.ii <= Len(crf.bis_by_carry[crf.ci].desired)

C2_StockInv ==
    crf.pc # "idle" =>
        /\ \A c \in DOMAIN crf.stock : crf.stock[c] >= 0
        /\ \A c \in Components :
              Units(crf.stock, c) = Owned(crf.components, c) - UsedBy(crf.crafted, crf.recipes, c)
        /\ crf.pc = "done" =>
              /\ \A c \in Components :
                    Units(crf.result.remaining_components, c)
                        = Owned(crf.components, c) - UsedBy(crf.result.crafted, crf.recipes, c)
              /\ \A c \in DOMAIN crf.result.remaining_components :
                    crf.result.remaining_components[c] > 0

C2_ItemStep ==
    (AtItem /\ CurItem \in DOMAIN crf.recipes) =>
        \/ /\ crf'.crafted = Append(crf.crafted, CurItem)
           /\ \A c \in Components :
                 Units(crf'.stock, c) = Units(crf.stock, c) - CountIn(crf.recipes[CurItem], c)
        \/ /\ crf'.crafted = crf.crafted
           /\ crf'.stock = crf.stock

C2_Example ==
    (crf.pc = "done" /\ crf.recipes = GuinsooOnly /\ crf.bis_by_carry = WantsGuinsoo) =>
        /\ (Owned(crf.components, "Recurve Bow") = 1
              /\ Owned(crf.components, "Needlessly Large Rod") = 1) =>
                 /\ crf.result.crafted = <<"Guinsoo's Rageblade">>
                 /\ crf.result.remaining_components = <<>>
        /\ (Owned(crf.components, "Recurve Bow") = 0
              \/ Owned(crf.components, "Needlessly Large Rod") = 0) =>
                 /\ crf.result.crafted = <<>>
                 /\ crf.result.remaining_components = PositiveStock(crf.components)

\* C2: craftable_bis_items is all-or-nothing per item: an attempted item with
\* a recipe is either crafted, the working stock dropping by exactly the
\* recipe's multiset of components, or not crafted with the stock unchanged;
\* no stock count goes below zero; remaining_components is the initial
\* positive stock minus the recipes of all crafted items; Guinsoo's Rageblade
\* = [Bow, Rod] is crafted from one of each leaving nothing, and is not
\* crafted when either component is absent.
C2_AllOrNothing == [](C2_StockInv /\ C2_Example) /\ [][C2_ItemStep]_vars

C2_Witness ==
    /\ crf.pc = "done"
    /\ Len(crf.result.crafted) = 1
    /\ crf.recipes[crf.result.crafted[1]] = <<"Needlessly Large Rod", "Needlessly Large Rod">>
    /\ \E c \in DOMAIN crf.bis_by_carry :
          \E i \in DOMAIN crf.bis_by_carry[c].desired :
              /\ crf.bis_by_carry[c].desired[i] \in DOMAIN crf.recipes
              /\ crf.recipes[crf.bis_by_carry[c].desired[i]] = <<"Recurve Bow", "Needlessly Large Rod">>
    /\ crf.result.remaining_components = [c \in {"Recurve Bow"} |-> 1]

C3_LimitInv ==
    (crf.pc # "idle" /\ crf.per_carry_limit # None) =>
        \A carry \in DOMAIN crf.crafted_map :
            Len(crf.crafted_map[carry]) <= ValueOf(crf.per_carry_limit)

C3_LimitStep ==
    (/\ AtItem
     /\ crf.per_carry_limit # None
     /\ Len(crf.crafted_map[crf.bis_by_carry[crf.ci].carry]) >= ValueOf(crf.per_carry_limit)) =>
        /\ crf'.crafted = crf.crafted
        /\ crf'.stock = crf.stock

\* C3: with a per_carry_limit k >= 0 no carry ends with more than k crafted
\* items, and once a carry has reached k no further item of that carry is
\* crafted or consumes stock.
C3_PerCarryLimit == []C3_LimitInv /\ [][C3_LimitStep]_vars

\* ------------------------------------------------------------------------
\* Claims about name normalization
\* ------------------------------------------------------------------------
Clean(s) == s = <<>> \/ (s[1] \notin Whitespace /\ s[Len(s)] \notin Whitespace /\ s[Len(s)] # "*")

\* C10: name normalization is idempotent for every input string (several
\* trailing '*' characters and whitespace between them included):
\* normalize(normalize(s)) = normalize(s); the result has no surrounding
\* whitespace and no trailing '*'; a name without those artifacts is
\* returned unchanged.
C10_Idempotent ==
    /\ nm.pc \in {"once", "twice"} =>
          /\ Clean(nm.once)
          /\ Clean(nm.value) => nm.once = nm.value
    /\ nm.pc = "twice" => nm.twice = nm.once

\* ------------------------------------------------------------------------
\* Claims about the notes engine
\* ------------------------------------------------------------------------
StageAtLeast(have, required) ==
    LET h == parse_stage(have)
        r == parse_stage(required)
    IN h[1] > r[1] \/ (h[1] = r[1] /\ h[2] >= r[2])

AugmentsPass(t, inv) == \E a \in Range(t.missing_augments_any) : a \notin Range(inv.augments)

ComponentsPass(t, inv) ==
    \E c \in Range(t.have_components_any) :
        c \in DOMAIN inv.items_components /\ inv.items_components[c] > 0

StagePass(t, inv) == StageAtLeast(inv.stage, ValueOf(t.stage_min))

Fires(n, inv) ==
    /\ n.triggers.missing_augments_any # <<>> => AugmentsPass(n.triggers, inv)
    /\ n.triggers.have_components_any # <<>> => ComponentsPass(n.triggers, inv)
    /\ n.triggers.stage_min # None => StagePass(n.triggers, inv)

\* C6: a note fires iff every present trigger condition passes (a list
\* condition is present when non-empty, stage_min when set); so a note with
\* both have_components_any and stage_min does not fire when only one holds,
\* and a note with no present condition fires for every inventory.
C6_FiresIffAllPresentPass ==
    nt.pc = "evaluated" =>
        LET t == nt.note.triggers IN
        /\ nt.result.ok <=> Fires(nt.note, nt.inv)
        /\ (t.have_components_any # <<>> /\ t.stage_min # None
              /\ ~(ComponentsPass(t, nt.inv) /\ StagePass(t, nt.inv))) => ~nt.result.ok
        /\ (t.missing_augments_any = <<>> /\ t.have_components_any = <<>>
              /\ t.stage_min = None) => nt.result.ok

C6_Witness ==
    /\ nt.pc = "evaluated"
    /\ nt.note.triggers.missing_augments_any = <<>>
    /\ nt.note.triggers.have_components_any # <<>>
    /\ nt.note.triggers.stage_min # None
    /\ ComponentsPass(nt.note.triggers, nt.inv)
    /\ ~StagePass(nt.note.triggers, nt.inv)
    /\ ~nt.result.ok

RECURSIVE Fired(_, _)
Fired(notes, inv) ==
    IF notes = <<>> THEN <<>>
    ELSE IF Fires(notes[1], inv)
         THEN <<[severity |-> notes[1].severity, text |-> notes[1].text,
                 pivot_to |-> notes[1].triggers.suggest_pivot_to]>> \o Fired(Tail(notes), inv)
         ELSE Fired(Tail(notes), inv)

Shown(results) ==
    [i \in 1..Len(results) |->
        [severity |-> results[i].severity, text |-> results[i].text,
         pivot_to |-> results[i].pivot_to]]

\* C7: evaluate_notes returns exactly the subsequence of build.notes whose
\* triggers pass, in declared order, each entry carrying the note's severity,
\* text and pivot_to = suggest_pivot_to; the critical note with
\* missing_augments_any, stage_min 3-2 and pivot sniper_squad yields a
\* critical entry with pivot sniper_squad for no augments at stage 3-2.
C7_DeclaredOrder ==
    nt.pc = "done" =>
        /\ Shown(nt.results) = Fired(nt.notes, nt.inv)
        /\ (CriticalPivotNote \in Range(nt.notes) /\ nt.inv.augments = <<>>
              /\ nt.inv.stage = Str(<<"3", "-", "2">>)) =>
                \E i \in DOMAIN nt.results :
                    /\ nt.results[i].severity = "critical"
                    /\ nt.results[i].pivot_to = Some("sniper_squad")

C7_Witness ==
    /\ nt.pc = "done"
    /\ Len(nt.notes) = 3
    /\ nt.notes[2] = CriticalPivotNote
    /\ nt.inv.augments = <<>>
    /\ nt.inv.stage = Str(<<"3", "-", "2">>)
    /\ Len(nt.results) = 2
    /\ nt.results[1].severity = "critical"
    /\ nt.results[1].pivot_to = Some("sniper_squad")
    /\ nt.results[2].severity = "info"

\* ------------------------------------------------------------------------
\* Claims about the scoring engine
\* ------------------------------------------------------------------------
InUnit(x) == RLe(Zero, x) /\ RLe(x, One)

\* C4: for every valid Build and Inventory, every recipe map and every weight
\* override (negative weights, weights above 1, unknown keys), score_build
\* returns total, champions, items and prior each within [0, 1].
C4_ScoresInUnitInterval ==
    sc.pc = "scored" =>
        /\ InUnit(sc.score.total)
        /\ InUnit(sc.score.champions)
        /\ InUnit(sc.score.items)
        /\ InUnit(sc.score.prior)

\* a state where the weighted sum itself leaves [0, 1] and the result does not
C4_Witness ==
    /\ sc.pc = "scored"
    /\ sc.weights # None
    /\ "bogus" \in DOMAIN sc.weights
    /\ RLt(One, WeightedSum(EffectiveWeights(sc.weights), sc.score.champions,
                              sc.score.items, sc.score.prior))
    /\ sc.score.total = One

\* matched positions of the greedy pass, counted per component
GreedyCount(priority, have) ==
    SumSeq([i \in 1..Len(priority) |->
              IF Owned(have, priority[i])
                   - Cardinality({j \in 1..(i - 1) : priority[j] = priority[i]}) >= 1
              THEN 1 ELSE 0])

\* C8: the assignment in score_build's details is the greedy assignment of
\* build.item_priority_components against inventory.items_components: total
\* is the length of the priority list, matched the greedy match count, and
\* coverage = matched / max(total, 1) is the base item score; for the
\* 6-entry list [Bow, Rod, Bow, Negatron, Belt, BF] and {Bow:1, Negatron:1}
\* total = 6, matched = 2, coverage = 2/6.
C8_AssignmentExposed ==
    sc.pc = "scored" =>
        LET a == sc.score.details.assignment
            priority == sc.build.item_priority_components
            have == sc.inv.items_components
        IN /\ a.total = Len(priority)
           /\ a.matched = GreedyCount(priority, have)
           /\ a.matched = Len(a.matches)
           /\ \A m \in DOMAIN a.matches : priority[a.matches[m][1] + 1] = a.matches[m][2]
           /\ Len(a.matches) + Len(a.missing) = Len(priority)
           /\ sc.score.items
                 = Clamp01(RAdd(Rat(a.matched, IF a.total > 1 THEN a.total ELSE 1),
                                sc.score.details.bis_bonus))
           /\ (priority = DoubleTroublePriority
                 /\ have = [c \in {"Recurve Bow", "Negatron Cloak"} |-> 1]) =>
                   /\ a.total = 6
                   /\ a.matched = 2
                   /\ coverage(a) = Rat(2, 6)
                   /\ sc.score.details.bis_bonus = Zero
                   /\ sc.score.items = Rat(1, 3)

C8_Witness ==
    /\ sc.pc = "scored"
    /\ sc.build.item_priority_components = DoubleTroublePriority
    /\ sc.inv.items_components = [c \in {"Recurve Bow", "Negatron Cloak"} |-> 1]
    /\ sc.score.details.assignment.total = 6
    /\ sc.score.details.assignment.matched = 2

IsCoreAtGoal(build, added) ==
    \E i \in DOMAIN build.core_units :
        /\ build.core_units[i].name = added.name
        /\ build.core_units[i].star_goal = added.stars

\* C5: the champions score is monotone in ownership: adding to
\* inventory.units a champion that was absent (or at star 0), at the star
\* level of its core-unit goal, everything else unchanged, gives a champions
\* score greater than or equal to the score before.
C5_ChampionsMonotone ==
    (sc.pc = "rescored" /\ IsCoreAtGoal(sc.build, sc.added)) =>
        RLe(sc.before.champions, sc.score.champions)

C5_Witness ==
    /\ sc.pc = "rescored"
    /\ IsCoreAtGoal(sc.build, sc.added)
    /\ sc.added.name \in DOMAIN sc.inv.units
    /\ Cardinality(DOMAIN sc.inv.units) >= 2
    /\ RLt(sc.before.champions, sc.score.champions)
    /\ RLt(sc.score.champions, One)

Dominates(x, y) ==
    /\ RLe(y.champions, x.champions)
    /\ RLe(y.items, x.items)
    /\ RLe(y.prior, x.prior)
    /\ RLt(y.champions, x.champions) \/ RLt(y.items, x.items) \/ RLt(y.prior, x.prior)

DefaultSum(x) ==
    RAdd(RAdd(RMul(Rat(50, 100), x.champions), RMul(Rat(40, 100), x.items)),
         RMul(Rat(10, 100), x.prior))

NormalForm(rawname) ==
    LET t == strip(rawname)
    IN IF t # <<>> /\ t[Len(t)] = "*" THEN rstrip(SubSeq(t, 1, Len(t) - 1)) ELSE t

NormalForms(rawnames) == {NormalForm(rawnames[i]) : i \in DOMAIN rawnames}

AllNormal(held, rawnames) == \A i \in DOMAIN held : held[i] \in NormalForms(rawnames)

BisItemsNormal(obj, raw) ==
    \A i \in DOMAIN obj.bis_items :
        \A k \in DOMAIN obj.bis_items[i].desired :
            \E j \in DOMAIN raw.bis_items :
                /\ NormalForm(raw.bis_items[j].carry) = obj.bis_items[i].carry
                /\ obj.bis_items[i].desired[k] \in NormalForms(raw.bis_items[j].desired)

\* C11: after construction every name a Build holds is the normalized form
\* (trimmed, one trailing '*' stripped) of a raw name of the same field:
\* champion names in early_comp, mid_comp, late_comp and core_units,
\* component names, carry keys of bis_items and the completed-item names in
\* the bis_items lists; likewise the augment names of NoteTriggers and of
\* Inventory.
C11_NamesNormalized ==
    mdl.pc = "built" =>
        /\ mdl.cls = "Build" =>
              /\ \A f \in {"early_comp", "mid_comp", "late_comp", "item_priority_components"} :
                    AllNormal(mdl.obj[f], mdl.raw[f])
              /\ \A i \in DOMAIN mdl.obj.core_units :
                    mdl.obj.core_units[i].name = NormalForm(mdl.raw.core_units[i].name)
              /\ \A i \in DOMAIN mdl.obj.bis_items :
                    \E j \in DOMAIN mdl.raw.bis_items :
                        mdl.obj.bis_items[i].carry = NormalForm(mdl.raw.bis_items[j].carry)
              /\ BisItemsNormal(mdl.obj, mdl.raw)
        /\ mdl.cls = "NoteTriggers" =>
              /\ AllNormal(mdl.obj.missing_augments_any, mdl.raw.missing_augments_any)
              /\ AllNormal(mdl.obj.have_components_any, mdl.raw.have_components_any)
        /\ mdl.cls = "Inventory" => AllNormal(mdl.obj.augments, mdl.raw.augments)

\* ------------------------------------------------------------------------
\* Claims about the stage helpers
\* ------------------------------------------------------------------------
PairLe(x, y) == x[1] < y[1] \/ (x[1] = y[1] /\ x[2] <= y[2])

BucketOf(rs) ==
    IF PairLe(rs, <<3, 1>>) THEN "early" ELSE IF PairLe(rs, <<4, 1>>) THEN "mid" ELSE "late"

BucketRank(b) == CASE b = "early" -> 0 [] b = "mid" -> 1 [] b = "late" -> 2

\* C12: for every valid stage the bucket is EARLY iff (round, step) <=
\* (3,1), MID iff (3,1) < (round, step) <= (4,1) and LATE otherwise; 3-1 is
\* EARLY, 3-2 and 4-1 are MID, 4-2 is LATE; and when stage b is at least
\* stage a under stage_ge, the bucket of b is not before the bucket of a.
C12_BucketCutoffs ==
    /\ (stg.pc \in {"first", "both", "compared"} /\ stg.a.rs # None) =>
          /\ stg.bucket_a = BucketOf(ValueOf(stg.a.rs))
          /\ stg.a.text = <<"3", "-", "1">> => stg.bucket_a = "early"
          /\ stg.a.text \in {<<"3", "-", "2">>, <<"4", "-", "1">>} => stg.bucket_a = "mid"
          /\ stg.a.text = <<"4", "-", "2">> => stg.bucket_a = "late"
    /\ (stg.pc \in {"both", "compared"} /\ stg.b.rs # None) =>
          stg.bucket_b = BucketOf(ValueOf(stg.b.rs))
    /\ (stg.pc = "compared" /\ stg.a.rs # None /\ stg.b.rs # None) =>
          /\ stg.ge = PairLe(ValueOf(stg.a.rs), ValueOf(stg.b.rs))
          /\ stg.ge = TRUE => BucketRank(stg.bucket_a) <= BucketRank(stg.bucket_b)

\* 3-2 against 3-10: step 10 is after step 2, both are mid
C12_Witness ==
    /\ stg.pc = "compared"
    /\ stg.a.text = <<"3", "-", "2">> /\ stg.b.text = <<"3", "-", "1", "0">>
    /\ stg.ge = TRUE
    /\ stg.bucket_a = "mid" /\ stg.bucket_b = "mid"

\* ------------------------------------------------------------------------
\* Claims about the champion heat map
\* ------------------------------------------------------------------------
CompChampions(builds) ==
    UNION {Range(builds[i].late_comp) \cup Range(builds[i].mid_comp)
             \cup Range(builds[i].early_comp) : i \in DOMAIN builds}

\* C13: compute_champion_heat returns an empty map for an empty build list;
\* for a non-empty list every returned value lies in [0, 1], the keys are
\* exactly the champions of some build's late, mid or early comp, and the
\* largest returned value is exactly 1 (or every value is 0 when every
\* accumulated weight was non-positive).
C13_HeatNormalized ==
    an.pc = "done" =>
        /\ an.builds = <<>> => DOMAIN an.result = {}
        /\ DOMAIN an.result = CompChampions(an.builds)
        /\ \A k \in DOMAIN an.result : InUnit(an.result[k])
        /\ DOMAIN an.result # {} =>
              IF \A k \in DOMAIN an.acc : RLe(an.acc[k], Zero)
              THEN \A k \in DOMAIN an.result : an.result[k] = Zero
              ELSE \E k \in DOMAIN an.result : an.result[k] = One

\* an S build with core Jhin late and an X build with Gnar early:
\* Jhin is the hottest champion, Gnar gets 0.35 * 0.35 / 1.25
C13_Witness ==
    /\ an.pc = "done"
    /\ Len(an.builds) = 2
    /\ DOMAIN an.result = {"Jhin", "Gnar"}
    /\ an.result["Jhin"] = One
    /\ an.result["Gnar"] = Rat(49, 500)

\* ------------------------------------------------------------------------
\* Claims about the build loader
\* ------------------------------------------------------------------------
YamlPaths(d) == {p \in DOMAIN d : p.ext \in {".yaml", ".yml"}}

AllValid(d) == \A p \in YamlPaths(d) : d[p] # InvalidContent

\* enumeration order: every .yaml file before every .yml file, by name
\* within a suffix
EnumBefore(p, q) ==
    \/ p.ext = ".yaml" /\ q.ext = ".yml"
    \/ p.ext = q.ext /\ p.stem < q.stem

FirstOf(d, p) ==
    CHOOSE q \in YamlPaths(d) :
        d[q].id = d[p].id /\ \A r \in YamlPaths(d) : d[r].id = d[p].id /\ r # q => EnumBefore(q, r)

IsDuplicate(d, p) == \E q \in YamlPaths(d) : d[q].id = d[p].id /\ EnumBefore(q, p)

FirstPaths(d) == {p \in YamlPaths(d) : ~IsDuplicate(d, p)}

Done14 == ld.op = "load" /\ ld.pc \in {"raised", "returned"} /\ ld.directory # None

\* C14: for a directory of valid build files, with strict_ids the call
\* raises an invalid-build error iff some id is declared by two or more
\* files, and the error has one entry per duplicate occurrence naming the
\* id, the duplicate's path and the first occurrence's path; without
\* strict_ids it never raises and returns, in enumeration order, exactly
\* the first-enumerated build of each id.
C14_DuplicateIds ==
    (Done14 /\ AllValid(ld.directory)) =>
        LET d == ld.directory
            dups == {p \in YamlPaths(d) : IsDuplicate(d, p)}
        IN /\ ld.strict_ids =>
                 /\ ld.pc = "raised" <=> dups # {}
                 /\ ld.pc = "raised" =>
                       /\ ld.error.error = "InvalidBuildError"
                       /\ Len(ld.error.errors) = Cardinality(dups)
                       /\ \A p \in dups :
                             \E i \in DOMAIN ld.error.errors :
                                 ld.error.errors[i] =
                                     [id |-> d[p].id, path |-> p, first |-> FirstOf(d, p)]
                 /\ ld.pc = "returned" =>
                       /\ Len(ld.result) = Cardinality(YamlPaths(d))
                       /\ \A i \in DOMAIN ld.result : ld.result[i] = d[ld.files[i]]
           /\ ~ld.strict_ids =>
                 /\ ld.pc = "returned"
                 /\ Len(ld.result) = Cardinality(FirstPaths(d))
                 /\ \A p \in FirstPaths(d) : \E i \in DOMAIN ld.result : ld.result[i] = d[p]
                 /\ \A i, j \in DOMAIN ld.result :
                       i < j => \E p, q \in FirstPaths(d) :
                                   /\ ld.result[i] = d[p] /\ ld.result[j] = d[q]
                                   /\ EnumBefore(p, q)

\* 2.yaml and 1.yml both repeat the id of 1.yaml: two entries, both naming
\* 1.yaml as the first occurrence
C14_Witness ==
    /\ Done14 /\ AllValid(ld.directory) /\ ld.strict_ids /\ ld.pc = "raised"
    /\ Len(ld.error.errors) = 2
    /\ ld.error.errors[1] = [id |-> "sniper", path |-> [stem |-> 2, ext |-> ".yaml"],
                             first |-> [stem |-> 1, ext |-> ".yaml"]]
    /\ ld.error.errors[2].path = [stem |-> 1, ext |-> ".yml"]
    /\ ld.error.errors[2].first = [stem |-> 1, ext |-> ".yaml"]

TierPosition(t) ==
    CASE t = "S" -> 0 [] t = "A" -> 1 [] t = "B" -> 2 [] t = "C" -> 3 [] t = "X" -> 4
      [] OTHER -> 5

MetaLe(a, b) ==
    \/ TierPosition(a.tier) < TierPosition(b.tier)
    \/ /\ TierPosition(a.tier) = TierPosition(b.tier)
       /\ \/ a.tier_rank < b.tier_rank
          \/ a.tier_rank = b.tier_rank /\ ~StrLt(lower(b.name), lower(a.name))

MetaEq(a, b) == MetaLe(a, b) /\ MetaLe(b, a)

Bijections(n) == {f \in [1..n -> 1..n] : \A i, j \in 1..n : i # j => f[i] # f[j]}

\* C15: sort_builds_by_meta returns a permutation of its input ordered
\* non-decreasingly by (tier position in S<A<B<C<X<unknown, tier_rank,
\* lower-cased name), builds of equal key keeping their input order; the
\* input list is left unchanged.
C15_StableMetaSort ==
    (ld.op = "sort" /\ ld.pc = "returned") =>
        /\ ld.builds = ld.arg
        /\ Len(ld.result) = Len(ld.arg)
        /\ \A i \in 1..(Len(ld.result) - 1) : MetaLe(ld.result[i], ld.result[i + 1])
        /\ \E f \in Bijections(Len(ld.arg)) :
              /\ \A i \in DOMAIN ld.result : ld.result[i] = ld.arg[f[i]]
              /\ \A i, j \in DOMAIN ld.result :
                    (i < j /\ MetaEq(ld.result[i], ld.result[j])) => f[i] < f[j]

\* "b" before "B" in the input stays before it; the S build moves ahead
C15_Witness ==
    /\ ld.op = "sort" /\ ld.pc = "returned"
    /\ ld.arg = <<[name |-> <<"b">>, tier |-> "A", tier_rank |-> 1],
                  [name |-> <<"B">>, tier |-> "A", tier_rank |-> 1],
                  [name |-> <<"A", "b">>, tier |-> "S", tier_rank |-> 2]>>
    /\ ld.result = <<ld.arg[3], ld.arg[1], ld.arg[2]>>

\* ------------------------------------------------------------------------
\* Claims about the ingestion script
\* ------------------------------------------------------------------------
\* the selected entries of one tier, as positions in the selected list
TierMembers(st, tier) == {k \in DOMAIN st.selected : st.heap[st.selected[k].build].tier = tier}

RankOf(st, k) == st.heap[st.selected[k].build].tier_rank

IndexOf(st, k) == st.guides[st.selected[k].guide].display_index

GenTiers(st) == {st.heap[r].tier : r \in DOMAIN st.heap}

\* C16: after generate_builds, the tier_rank values of the N builds of a
\* tier are exactly 1..N, each used once; within a tier a build with a
\* smaller display index has a smaller tier_rank, and builds with equal
\* display index are ranked in their guide order.
C16_TierRanks ==
    (ing.op = "generate" /\ ing.pc \in {"sort", "done"}) =>
        \A tier \in GenTiers(ing) :
            LET members == TierMembers(ing, tier) IN
            /\ {RankOf(ing, k) : k \in members} = 1..Cardinality(members)
            /\ \A k1, k2 \in members :
                  /\ k1 # k2 => RankOf(ing, k1) # RankOf(ing, k2)
                  /\ IndexOf(ing, k1) < IndexOf(ing, k2) => RankOf(ing, k1) < RankOf(ing, k2)
                  /\ (IndexOf(ing, k1) = IndexOf(ing, k2) /\ k1 < k2) =>
                        RankOf(ing, k1) < RankOf(ing, k2)

\* three S builds given with display indices 1, 0, 0 get ranks 3, 1, 2
C16_Witness ==
    /\ ing.op = "generate" /\ ing.pc = "done"
    /\ Len(ing.selected) = 3
    /\ \A k \in 1..3 : ing.heap[ing.selected[k].build].tier = <<"S">>
    /\ <<IndexOf(ing, 1), IndexOf(ing, 2), IndexOf(ing, 3)>> = <<1, 0, 0>>
    /\ <<RankOf(ing, 1), RankOf(ing, 2), RankOf(ing, 3)>> = <<3, 1, 2>>

SixTiers == {<<"S">>, <<"A">>, <<"B">>, <<"C">>, <<"D">>, <<"X">>}

SixTierPosition(tier) ==
    CASE tier = <<"S">> -> 0 [] tier = <<"A">> -> 1 [] tier = <<"B">> -> 2 [] tier = <<"C">> -> 3
      [] tier = <<"D">> -> 4 [] tier = <<"X">> -> 5 [] OTHER -> 6

GenOrderLe(a, b) ==
    \/ SixTierPosition(a.tier) < SixTierPosition(b.tier)
    \/ /\ SixTierPosition(a.tier) = SixTierPosition(b.tier)
       /\ \/ a.tier_rank < b.tier_rank
          \/ a.tier_rank = b.tier_rank /\ ~StrLt(lower(b.name), lower(a.name))

\* C17: generate_builds returns the builds ordered by (tier position in
\* S, A, B, C, D, X; tier_rank; lower-cased name), and every build whose
\* tier label is not one of those six single letters (a multi-letter label
\* such as AB included) comes after all builds of the six recognized tiers.
C17_GenerateOrder ==
    (ing.op = "generate" /\ ing.pc = "done") =>
        LET result == GenResult(ing) IN
        /\ \A i \in 1..(Len(result) - 1) : GenOrderLe(result[i], result[i + 1])
        /\ \A i, j \in DOMAIN result :
              (result[i].tier \notin SixTiers /\ result[j].tier \in SixTiers) => j < i

\* the API names the catalog index resolves, with the champion they name
KnownChampions ==
    [a \in {"TFT15_Jhin", "TFT15_Gnar", "TFT15_Galio", "TFT15_ZyraGraspingPlant"} |->
        CASE a = "TFT15_Jhin" -> "Jhin" [] a = "TFT15_Gnar" -> "Gnar"
          [] a = "TFT15_Galio" -> "Galio" [] a = "TFT15_ZyraGraspingPlant" -> "Zyra"]

FinalComp(guide) == IF "finalComp" \in DOMAIN guide.raw THEN guide.raw.finalComp ELSE <<>>

RECURSIVE KnownOf(_)
KnownOf(entries) ==
    IF entries = <<>> THEN <<>>
    ELSE (IF entries[1].apiName \in DOMAIN KnownChampions
          THEN <<KnownChampions[entries[1].apiName]>> ELSE <<>>) \o KnownOf(Tail(entries))

Eligible(guide) == guide.is_public /\ guide.slug # <<>> /\ KnownOf(FinalComp(guide)) # <<>>

\* C19: generate_builds emits exactly one build for each guide that is
\* public, has a non-empty slug and has at least one resolvable final-comp
\* champion, with the unresolved champions dropped; private guides, guides
\* with an empty slug and guides whose final comp resolves to nothing give
\* no build, so every generated build has a non-empty late_comp.
C19_OneBuildPerEligibleGuide ==
    (ing.op = "generate" /\ ing.pc \in {"sort", "done"}) =>
        LET eligible == {g \in DOMAIN ing.guides : Eligible(ing.guides[g])} IN
        /\ {ing.selected[k].guide : k \in DOMAIN ing.selected} = eligible
        /\ Len(ing.selected) = Cardinality(eligible)
        /\ Len(ing.builds) = Cardinality(eligible)
        /\ {ing.builds[i] : i \in DOMAIN ing.builds}
              = {ing.selected[k].build : k \in DOMAIN ing.selected}
        /\ \A k \in DOMAIN ing.selected :
              LET b == ing.heap[ing.selected[k].build] IN
              /\ b.late_comp = KnownOf(FinalComp(ing.guides[ing.selected[k].guide]))
              /\ b.late_comp # <<>>

\* a private guide, a guide with only an unknown champion, and a guide
\* with Jhin and an unknown champion: one build, late comp Jhin
C19_Witness ==
    /\ ing.op = "generate" /\ ing.pc = "done"
    /\ Len(ing.guides) = 3
    /\ ~ing.guides[1].is_public
    /\ ing.guides[2].raw = RawVoidling
    /\ ing.guides[3].raw = RawJhin /\ Eligible(ing.guides[3])
    /\ Len(ing.builds) = 1
    /\ ing.heap[ing.builds[1]].late_comp = <<"Jhin">>

HasKey(entry, key) == entry.data # None /\ key \in DOMAIN ValueOf(entry.data)

FirstWith(entries, key) ==
    CHOOSE i \in DOMAIN entries :
        HasKey(entries[i], key) /\ \A j \in 1..(i - 1) : ~HasKey(entries[j], key)

\* C18: fetch_guides uses the first payload entry with a patch field and
\* the first entry whose data has a guides list, independently of each
\* other: whatever the order of the entries, the returned patch is the
\* patch of the first entry that has one and the returned guides are those
\* of the first entry that has a guides list.
C18_FirstPatchFirstGuides ==
    (ing.op = "fetch" /\ ing.pc = "returned") =>
        /\ (\E i \in DOMAIN ing.entries : HasKey(ing.entries[i], "patch")) =>
              ing.patch = ValueOf(ing.entries[FirstWith(ing.entries, "patch")].data).patch
        /\ (\E i \in DOMAIN ing.entries : HasKey(ing.entries[i], "guides")) =>
              LET g == ValueOf(ing.entries[FirstWith(ing.entries, "guides")].data).guides
              IN [i \in DOMAIN ing.guides |-> ing.guides[i].raw] = g

\* ------------------------------------------------------------------------
\* Claims about the script's effect on the output directory
\* ------------------------------------------------------------------------
GeneratedPaths == {PathOf(ing.builds[i].id) : i \in DOMAIN ing.builds}

YamlNames(files) ==
    {n \in DOMAIN files : Len(n) >= 5 /\ SubSeq(n, Len(n) - 4, Len(n)) = YAML_SUFFIX}

BeforeFiles == IF ing.before = None THEN <<>> ELSE ValueOf(ing.before)

\* C20: a dry run never changes the output directory (it is not even
\* created); after a default run the directory's .yaml files are exactly
\* the files <id>.yaml of the generated builds, and each begins with the two
\* header lines; after a keep-existing run every file that was there and
\* is named after no generated id is still there with its content
C20_DirectoryByMode ==
    ing.op = "main" =>
        /\ ing.dry_run => ing.dir = ing.before
        /\ (ing.pc = "done" /\ ~ing.dry_run /\ ~ing.keep_existing) =>
              /\ ing.dir # None
              /\ YamlNames(ValueOf(ing.dir)) = GeneratedPaths
              /\ \A n \in GeneratedPaths :
                    /\ SubSeq(ValueOf(ing.dir)[n].text, 1, 2) = HEADER
                    /\ \E i \in DOMAIN ing.builds :
                          /\ PathOf(ing.builds[i].id) = n
                          /\ ValueOf(ing.dir)[n].payload = Some(to_dict(ing.builds[i]))
        /\ (ing.pc = "done" /\ ~ing.dry_run /\ ing.keep_existing) =>
              /\ ing.dir # None
              /\ \A n \in (DOMAIN BeforeFiles) \ GeneratedPaths :
                    /\ n \in DOMAIN ValueOf(ing.dir)
                    /\ ValueOf(ing.dir)[n] = BeforeFiles[n]

\* a default run over a directory holding a headerless a.yaml and a c.yaml
\* has written two builds, one of them to a.yaml
C20_Witness ==
    /\ ing.op = "main" /\ ing.pc = "done" /\ ~ing.dry_run /\ ~ing.keep_existing
    /\ Len(ing.builds) = 2
    /\ (<<"c">> \o YAML_SUFFIX) \in DOMAIN BeforeFiles
    /\ (<<"a">> \o YAML_SUFFIX) \in DOMAIN BeforeFiles
    /\ BeforeFiles[<<"a">> \o YAML_SUFFIX].payload = None
    /\ (<<"a">> \o YAML_SUFFIX) \in GeneratedPaths
    /\ (<<"c">> \o YAML_SUFFIX) \notin DOMAIN ValueOf(ing.dir)

\* ------------------------------------------------------------------------
\* Claims about the assignment result
\* ------------------------------------------------------------------------
MatchIndices(r) == {r.matches[m][1] : m \in DOMAIN r.matches}

\* the subsequence of priority at the positions that are no match index
RECURSIVE MissingOf(_, _, _)
MissingOf(priority, indices, n) ==
    IF n = 0 THEN <<>>
    ELSE IF (n - 1) \in indices THEN MissingOf(priority, indices, n - 1)
         ELSE Append(MissingOf(priority, indices, n - 1), priority[n])

MatchesOf(r, c) == Cardinality({m \in DOMAIN r.matches : r.matches[m][2] = c})

\* C24: the returned AssignmentResult has total = len(priority), matched =
\* len(matches), matched + len(missing) = total, strictly increasing match
\* indices, missing = the priority entries at the unmatched positions in
\* order, only counts >= 1 in remaining, and for every component
\* remaining (0 if absent) = max(have, 0) - number of matches of it
C24_ResultShape ==
    asg.pc = "done" =>
        LET r == asg.result IN
        /\ r.total = Len(asg.priority)
        /\ r.matched = Len(r.matches)
        /\ r.matched + Len(r.missing) = r.total
        /\ \A m \in DOMAIN r.matches : m > 1 => r.matches[m - 1][1] < r.matches[m][1]
        /\ \A m \in DOMAIN r.matches :
              /\ r.matches[m][1] \in 0..(Len(asg.priority) - 1)
              /\ r.matches[m][2] = asg.priority[r.matches[m][1] + 1]
        /\ r.missing = MissingOf(asg.priority, MatchIndices(r), Len(asg.priority))
        /\ \A c \in DOMAIN r.remaining : r.remaining[c] >= 1
        /\ \A c \in Components :
              Get(r.remaining, c, 0) = Max(Get(asg.have, c, 0), 0) - MatchesOf(r, c)

\* a returned result with a match, a miss, a used-up component that is
\* absent from remaining and a negative count in have
C24_Witness ==
    /\ asg.pc = "done"
    /\ asg.result.matched >= 1
    /\ asg.result.missing # <<>>
    /\ \E c \in DOMAIN asg.have : asg.have[c] >= 1 /\ c \notin DOMAIN asg.result.remaining
    /\ \E c \in DOMAIN asg.have : asg.have[c] < 0

\* ------------------------------------------------------------------------
\* Claims about the number of covered positions
\* ------------------------------------------------------------------------
RECURSIVE SumOver(_, _, _)
SumOver(S, priority, have) ==
    IF S = {} THEN 0
    ELSE LET c == CHOOSE x \in S : TRUE
         IN Min(CountIn(priority, c), Max(Get(have, c, 0), 0))
            + SumOver(S \ {c}, priority, have)

\* the most positions any assignment of owned units can cover
MaxCover(priority, have) == SumOver(Range(priority), priority, have)

Reordered(priority, f) == [i \in DOMAIN priority |-> priority[f[i]]]

\* C27: matched is the sum over components of min(occurrences in priority,
\* max(have, 0)), the most any assignment can cover, and every reordering
\* of the priority list gives the same matched
C27_GreedyCoversMaximum ==
    asg.pc = "done" =>
        /\ asg.result.matched = MaxCover(asg.priority, asg.have)
        /\ \A f \in Bijections(Len(asg.priority)) :
              assign_components_by_priority(Reordered(asg.priority, f), asg.have).matched
                  = asg.result.matched

\* a component wanted twice and owned twice next to one wanted but not
\* owned: a stock that only recorded ownership would cover one position
C27_Witness ==
    /\ asg.pc = "done"
    /\ Len(asg.priority) = 3
    /\ \E c \in DOMAIN asg.have : asg.have[c] = 2 /\ CountIn(asg.priority, c) = 2
    /\ asg.result.matched = 2

\* ------------------------------------------------------------------------
\* Claims about the tier/rank prior
\* ------------------------------------------------------------------------
\* C30: for every tier the prior of rank r + 1 is at most the prior of
\* rank r; an S-tier build has prior exactly 1 and an X-tier build exactly
\* 0 at every rank; for A, B and C the prior falls by 0.02 per rank from
\* rank 1 to rank 11 and stays the same from rank 11 on
C30_PriorByRank ==
    /\ sc.pc \in {"prior_first", "prior_both"} =>
          /\ upper(sc.tier) = "S" => sc.p_rank = One
          /\ upper(sc.tier) = "X" => sc.p_rank = Zero
    /\ sc.pc = "prior_both" =>
          /\ RLe(sc.p_next, sc.p_rank)
          /\ upper(sc.tier) \in {"A", "B", "C"} =>
                IF sc.tier_rank < 11
                THEN sc.p_next = RAdd(sc.p_rank, Rat(-2, 100))
                ELSE sc.p_next = sc.p_rank

\* an A-tier build at rank 10 and at rank 11: 0.62 and 0.60, and a B-tier
\* build at ranks 11 and 12 with equal priors
C30_Witness ==
    /\ sc.pc = "prior_both"
    /\ \/ sc.tier = "A" /\ sc.tier_rank = 10 /\ sc.p_rank = Rat(62, 100)
             /\ sc.p_next = Rat(60, 100)
       \/ sc.tier = "B" /\ sc.tier_rank = 11 /\ sc.p_rank = sc.p_next

\* ------------------------------------------------------------------------
\* Claims about the array extraction
\* ------------------------------------------------------------------------
\* the number of leading whitespace characters
RECURSIVE LeadingSpace(_)
LeadingSpace(data) ==
    IF data # <<>> /\ isspace(data[1]) THEN 1 + LeadingSpace(Tail(data)) ELSE 0

\* opening minus closing brackets among the first n characters of t
Depth(t, n) ==
    Cardinality({i \in 1..n : t[i] = "["}) - Cardinality({i \in 1..n : t[i] = "]"})

\* C26: extract_js_array skips leading whitespace and raises unless the
\* next character is '['; otherwise it returns (array, rest) with array the
\* shortest non-empty text from that '[' on whose '[' and ']' counts are
\* equal, every bracket counted, and whitespace + array + rest = data; it
\* raises when no such text exists
C26_BracketScan ==
    (ing.op = "extract" /\ ing.pc \in {"returned", "raised"}) =>
        LET w == LeadingSpace(ing.data)
            body == SubSeq(ing.data, w + 1, Len(ing.data))
            balanced == {n \in 1..Len(body) : Depth(body, n) = 0}
        IN IF body = <<>> \/ body[1] # "["
           THEN ing.pc = "raised" /\ ing.error = "Expected '[' at start of JS array"
           ELSE IF balanced = {}
                THEN /\ ing.pc = "raised"
                     /\ ing.error = "Unbalanced brackets while extracting JS array"
                ELSE /\ ing.pc = "returned"
                     /\ Len(ing.array) \in balanced
                     /\ \A n \in balanced : Len(ing.array) <= n
                     /\ SubSeq(ing.data, 1, w) \o ing.array \o ing.rest = ing.data

\* a nested array after whitespace, followed by more text
C26_Witness ==
    /\ ing.op = "extract" /\ ing.pc = "returned"
    /\ ing.idx >= 1
    /\ \E i \in 2..Len(ing.array) : ing.array[i] = "["
    /\ ing.rest # <<>>

\* ------------------------------------------------------------------------
\* Claims about the validity of generated builds
\* ------------------------------------------------------------------------
GenBuilds == GenResult(ing)

\* C28: every build generate_builds returns passes the Build model's
\* validation (tier one of S, A, B, C, X, every star_goal in 1..3, every
\* stage_min a parseable stage with round >= 1), and builds of distinct
\* guides have distinct ids
C28_GeneratedBuildsValid ==
    (ing.op = "generate" /\ ing.pc = "done") =>
        /\ \A i \in DOMAIN GenBuilds : ~BuildRaises(GenBuilds[i])
        /\ \A i, j \in DOMAIN GenBuilds : i # j => GenBuilds[i].id # GenBuilds[j].id

\* ------------------------------------------------------------------------
\* Claims about failed runs
\* ------------------------------------------------------------------------
\* C29: a run that fails at the catalog load, the request, the marker, the
\* data key, the array extraction, the parse or the guides lookup leaves
\* the output directory as it was, and until generate_builds has returned
\* no file has been deleted or written
C29_FailedRunLeavesDirectory ==
    (ing.op = "main" /\ ing.pc \in {"catalog", "request", "locate", "parse", "generate",
                                    "raised"})
        => ing.dir = ing.before

\* a default-mode run over a directory holding a.yaml and c.yaml that got
\* as far as the guides lookup and failed there
C29_Witness ==
    /\ ing.op = "main" /\ ing.pc = "raised"
    /\ ing.error = "No guides payload found in TFTAcademy response"
    /\ ~ing.dry_run /\ ~ing.keep_existing
    /\ ing.before # None
    /\ Glob(ValueOf(ing.before)) = {<<"a">> \o YAML_SUFFIX, <<"c">> \o YAML_SUFFIX}

\* ------------------------------------------------------------------------
\* Claims about the inputs of scoring, notes and the solver
\* ------------------------------------------------------------------------
\* no step of any of the four operations changes what it was handed
C23_Step ==
    /\ asg'.priority = asg.priority /\ asg'.have = asg.have
    /\ crf'.bis_by_carry = crf.bis_by_carry /\ crf'.recipes = crf.recipes
    /\ crf'.components = crf.components
    /\ nt'.notes = nt.notes /\ nt'.inv = nt.inv
    /\ sc'.build = sc.build /\ sc'.inv = sc.inv /\ sc'.recipes = sc.recipes

\* the operations still hold the build and the inventory they were given,
\* and scoring the build again gives the same result
C23_Same ==
    /\ asg.priority = sc.build.item_priority_components
    /\ asg.have = sc.inv.items_components
    /\ crf.bis_by_carry = sc.build.bis_items
    /\ crf.components = sc.inv.items_components
    /\ nt.notes = sc.build.notes /\ nt.inv = sc.inv
    /\ sc.pc = "rescored" => sc.again = sc.score

\* C23: score_build, evaluate_notes, assign_components_by_priority and
\* craftable_bis_items change none of their inputs: the build, the
\* inventory, the stock and the recipes are at every step what they were
\* before the call, so a repeated scoring gives the same result
C23_InputsUnchanged == []C23_Same /\ [][C23_Step]_vars

\* all four operations have returned after matching a component, crafting
\* an item and firing a note, and the build was scored twice
C23_Witness ==
    /\ sc.pc = "rescored" /\ asg.pc = "done" /\ crf.pc = "done" /\ nt.pc = "done"
    /\ asg.result.matched >= 1
    /\ crf.result.crafted # <<>>
    /\ nt.results # <<>>
    /\ asg.stock # asg.have


\* C21: in the session's component counter map every stored count is at
\* least 1 (a key whose count reaches zero is removed), a decrement button is
\* only offered for a key that is in the map, and a count changes only by an
\* increment click (+1, an absent key counting as 0) or a decrement click
\* (-1), so each count is its increments minus its decrements.
C21_Stored ==
    ui.pc # "idle" =>
        /\ \A k \in DOMAIN ui.components : ui.components[k] >= 1
        /\ ui.pc = "complete" => ui.run.offered \subseteq DOMAIN ui.components

C21_Step ==
    \A name \in UiComponents :
        CountOf(ui'.components, name) =
            CountOf(ui.components, name)
            + (IF ui.pc = "grid" /\ Clicked(ui, "inc") /\ ui.trigger[1].name = name
               THEN 1
               ELSE IF ui.pc = "owned" /\ Clicked(ui, "dec") /\ ui.trigger[1].name = name
               THEN -1 ELSE 0)

C21_CounterMap == []C21_Stored /\ [][C21_Step]_vars

C21_Witness ==
    /\ ui.pc = "owned" /\ Clicked(ui, "dec")
    /\ ui.trigger[1].name = "Needlessly Large Rod"
    /\ ui.components = [k \in UiComponents |-> IF k = "Recurve Bow" THEN MaxOwned ELSE 1]


\* C22: a completed render of a non-empty builds list shows the forced
\* build's card first when forcing is on and the id is a build's, and no
\* forced card otherwise; after it come the other builds in non-increasing
\* total, exactly min(top_n, number of non-forced builds) of them and none
\* with a lower total than a build left out, with top_n the chosen count in
\* 1..10 (TOP_N_DEFAULT when never chosen); no build has two cards and the
\* forced build is not among the ranked cards.
ChosenTopN == IF ui.top_n = None THEN TOP_N_DEFAULT ELSE ui.top_n[1]

ForcedShown == ui.force_on /\ \E i \in DOMAIN ui.builds : ui.builds[i].id = ui.forced

RankedCards ==
    IF ForcedShown THEN SubSeq(ui.run.cards, 2, Len(ui.run.cards)) ELSE ui.run.cards

NonForced == {i \in DOMAIN ui.builds : ~(ForcedShown /\ ui.builds[i].id = ui.forced)}

TotalOf(id) ==
    LET at == CHOOSE i \in DOMAIN ui.run.scored : ui.run.scored[i].build.id = id
    IN ui.run.scored[at].score.total

C22_CardOrder ==
    ui.pc = "complete" =>
        LET cards == ui.run.cards
            ranked == RankedCards
        IN /\ ForcedShown =>
                 /\ cards # <<>>
                 /\ cards[1].forced /\ cards[1].id = ui.forced
           /\ ForcedShown => \A i \in DOMAIN ranked : ranked[i].id # ui.forced
           /\ \A i \in DOMAIN ranked : ~ranked[i].forced
           /\ \A i, j \in DOMAIN ranked : i < j => RLe(ranked[j].total, ranked[i].total)
           /\ ChosenTopN \in 1..10
           /\ Len(ranked) = Min(ChosenTopN, Cardinality(NonForced))
           /\ \A i, j \in DOMAIN cards : i # j => cards[i].id # cards[j].id
           /\ \A i \in DOMAIN ranked : ranked[i].id \in {ui.builds[k].id : k \in NonForced}
           /\ \A k \in NonForced :
                 (\A i \in DOMAIN ranked : ranked[i].id # ui.builds[k].id) =>
                     \A i \in DOMAIN ranked : RLe(TotalOf(ui.builds[k].id), ranked[i].total)

C22_Witness ==
    /\ ui.pc = "complete" /\ ui.force_on
    /\ Len(ui.builds) = MaxUiBuilds
    /\ ui.forced = ui.builds[Len(ui.builds)].id
    /\ ui.top_n = Some(2)
    /\ Len(ui.run.cards) = 3
    /\ ui.run.cards[1].forced
    /\ ui.run.cards[2].total # ui.run.cards[3].total


\* C25: every completed render shows cards scored against an inventory
\* holding exactly the owned components and champions of the session as the
\* last click left it: the session's components and champions change only
\* while a click (component +1 or -1, champion add or remove) or a changed
\* champion selection is handled, and the inventory of a completed render is
\* the session's, also for the controls rendered after the scoring step.
C25_Handling ==
    \/ ui.pc = "grid" /\ Clicked(ui, "inc")
    \/ ui.pc = "owned" /\ Clicked(ui, "dec")
    \/ ui.pc = "champions" /\ (Clicked(ui, "add") \/ Clicked(ui, "select"))
    \/ ui.pc = "summary" /\ Clicked(ui, "remove")

C25_Shown ==
    ui.pc = "complete" =>
        /\ ui.run.inv[1].items_components = ui.components
        /\ DOMAIN ui.run.inv[1].units = DOMAIN ui.units

====
